---- MODULE Spec2Model ----
(***************************************************************************)
(* Discrete-event kernel and dispatch protocol of the taxi routing         *)
(* simulator: event queue, environment, snapshot (State), dispatcher       *)
(* contract, route-plan application and vehicle / passenger events.        *)
(***************************************************************************)
EXTENDS Integers, Sequences, FiniteSets, TLC

VARIABLES
    current_time,   \* Environment.__current_time
    env,            \* live Environment: registries and the objects they hold
    state,          \* env.optimization.state: registry of the snapshot (references)
    snap,           \* the objects created by the deep copy of get_new_state
    queue,          \* EventQueue.__queue: pending events by insertion index
    qindex,         \* EventQueue.__index
    pc,             \* position of the driving loop
    plans,          \* route plans built by the running optimize call
    err,            \* the error that aborted the run ("none" while running)
    last,           \* history: the event popped last, the Optimize events
                    \* processed for one time
    used,           \* history: the rounds asked for, the calls the
                    \* dispatcher has made in the run, the leg and the
                    \* vehicle of its last call of assign_leg; for the
                    \* dispatcher on its own, its runtime Timer and the
                    \* clock the Timer reads
    cfg             \* inputs fixed at construction

vars == <<current_time, env, state, snap, queue, qindex, pc, plans, err,
          last, used, cfg>>

-----------------------------------------------------------------------------
(* Bounds of the model *)

MaxTime == 4
MaxStops == 2
MaxAssign == 2
MaxPlans == 2
MaxIndex == 40
MaxRounds == 2
MaxFreeze == 1
MaxMin == 2
FreezeInterval == 0

(* Program constants *)

Inf == 1000
NoTime == -1
OptimizePriority == 10
StandardPriority == 5
LowPriority == 7

None == "None"
Vehicles == {"v1", "v2"}
Trips == {"t1", "t2"}
Locations == {"A", "B"}

-----------------------------------------------------------------------------
(* Sequence helpers (Python list operations) *)

Range(s) == {s[i] : i \in DOMAIN s}

Contains(s, x) == x \in Range(s)

\* index of the first occurrence of x in s (0 when absent)
IndexOf(s, x) ==
    IF Contains(s, x) THEN CHOOSE i \in DOMAIN s :
                               s[i] = x /\ \A j \in 1..(i - 1) : s[j] # x
    ELSE 0

\* list.remove(x): s without its first occurrence of x
Remove(s, x) ==
    LET i == IndexOf(s, x)
    IN  IF i = 0 THEN s
        ELSE SubSeq(s, 1, i - 1) \o SubSeq(s, i + 1, Len(s))

Count(s, x) == Cardinality({i \in DOMAIN s : s[i] = x})

-----------------------------------------------------------------------------
(* Entity model: Stop, Route, Leg, Trip.  The result of an operation that  *)
(* can raise is a record whose field ok is FALSE when it raised; the other *)
(* field is the object as the raise left it.                               *)

\* Stop.__init__
NewStop(arrival_time, departure_time, location) ==
    [arrival_time |-> arrival_time,
     departure_time |-> departure_time,
     min_departure_time |-> NoTime,
     passengers_to_board |-> <<>>,
     boarding_passengers |-> <<>>,
     boarded_passengers |-> <<>>,
     passengers_to_alight |-> <<>>,
     alighting_passengers |-> <<>>,
     alighted_passengers |-> <<>>,
     location |-> location]

\* Stop.__init__ with the keyword min_departure_time (stored as given)
NewStopWithMin(arrival_time, departure_time, location, min_departure_time) ==
    [NewStop(arrival_time, departure_time, location)
        EXCEPT !.min_departure_time = min_departure_time]

\* Stop.departure_time (setter): with a min_departure_time, a departure
\* time below it raises ValueError, and the comparison of None with it
\* raises TypeError
StopSetDepartureTime(stop, departure_time) ==
    IF stop.min_departure_time # NoTime
       /\ (departure_time = NoTime
              \/ departure_time < stop.min_departure_time)
    THEN [ok |-> FALSE, stop |-> stop]
    ELSE [ok |-> TRUE, stop |-> [stop EXCEPT !.departure_time = departure_time]]

\* Stop.initiate_boarding
StopInitiateBoarding(stop, trip) ==
    IF ~Contains(stop.passengers_to_board, trip)
    THEN [ok |-> FALSE, stop |-> stop]
    ELSE [ok |-> TRUE,
          stop |-> [stop EXCEPT !.passengers_to_board = Remove(@, trip),
                                !.boarding_passengers = Append(@, trip)]]

\* Stop.board
StopBoard(stop, trip) ==
    IF ~Contains(stop.boarding_passengers, trip)
    THEN [ok |-> FALSE, stop |-> stop]
    ELSE [ok |-> TRUE,
          stop |-> [stop EXCEPT !.boarding_passengers = Remove(@, trip),
                                !.boarded_passengers = Append(@, trip)]]

\* Stop.initiate_alighting
StopInitiateAlighting(stop, trip) ==
    IF ~Contains(stop.passengers_to_alight, trip)
    THEN [ok |-> FALSE, stop |-> stop]
    ELSE [ok |-> TRUE,
          stop |-> [stop EXCEPT !.passengers_to_alight = Remove(@, trip),
                                !.alighting_passengers = Append(@, trip)]]

\* Stop.alight
StopAlight(stop, trip) ==
    IF ~Contains(stop.alighting_passengers, trip)
    THEN [ok |-> FALSE, stop |-> stop]
    ELSE [ok |-> TRUE,
          stop |-> [stop EXCEPT !.alighting_passengers = Remove(@, trip),
                                !.alighted_passengers = Append(@, trip)]]

\* Stop.__deepcopy__: the four lists of passengers in progress are dropped
StopDeepCopy(stop) ==
    [stop EXCEPT !.alighted_passengers = <<>>,
                 !.alighting_passengers = <<>>,
                 !.boarded_passengers = <<>>,
                 !.boarding_passengers = <<>>]

\* Route.__init__: current_stop is a list of at most one stop (empty: None)
NewRoute(start_stop) ==
    [current_stop |-> <<start_stop>>,
     next_stops |-> <<>>,
     previous_stops |-> <<>>,
     onboard_legs |-> <<>>,
     assigned_legs |-> <<>>,
     alighted_legs |-> <<>>,
     load |-> 0]

\* Route.assign_leg
RouteAssignLeg(route, leg) ==
    [route EXCEPT !.assigned_legs = Append(@, leg)]

\* Route.initiate_boarding
RouteInitiateBoarding(route, trip) ==
    IF route.current_stop = <<>> THEN [ok |-> FALSE, route |-> route]
    ELSE LET r == StopInitiateBoarding(route.current_stop[1], trip)
         IN  [ok |-> r.ok,
              route |-> [route EXCEPT !.current_stop = <<r.stop>>]]

\* Route.board: current_leg is trip.current_leg (None when the trip has none)
RouteBoard(route, trip, current_leg) ==
    IF ~Contains(route.assigned_legs, current_leg)
    THEN [ok |-> FALSE, route |-> route]
    ELSE LET r1 == [route EXCEPT !.assigned_legs = Remove(@, current_leg),
                                 !.onboard_legs = Append(@, current_leg)]
         IN  IF r1.current_stop = <<>> THEN [ok |-> FALSE, route |-> r1]
             ELSE LET b == StopBoard(r1.current_stop[1], trip)
                  IN  IF ~b.ok THEN [ok |-> FALSE, route |-> r1]
                      ELSE [ok |-> TRUE,
                            route |-> [r1 EXCEPT !.current_stop = <<b.stop>>,
                                                 !.load = @ + 1]]

\* Route.depart
RouteDepart(route) ==
    [route EXCEPT !.previous_stops = @ \o route.current_stop,
                  !.current_stop = <<>>]

\* Route.arrive (the caller has checked that next_stops is not empty)
RouteArrive(route) ==
    [route EXCEPT !.current_stop = <<Head(route.next_stops)>>,
                  !.next_stops = Tail(@)]

\* Route.initiate_alighting
RouteInitiateAlighting(route, trip) ==
    IF route.current_stop = <<>> THEN [ok |-> FALSE, route |-> route]
    ELSE LET r == StopInitiateAlighting(route.current_stop[1], trip)
         IN  [ok |-> r.ok,
              route |-> [route EXCEPT !.current_stop = <<r.stop>>]]

\* Route.alight: trip is leg.trip
RouteAlight(route, leg, trip) ==
    IF ~Contains(route.onboard_legs, leg)
    THEN [ok |-> FALSE, route |-> route]
    ELSE LET r1 == [route EXCEPT !.onboard_legs = Remove(@, leg),
                                 !.alighted_legs = Append(@, leg)]
         IN  IF r1.current_stop = <<>> THEN [ok |-> FALSE, route |-> r1]
             ELSE LET a == StopAlight(r1.current_stop[1], trip)
                  IN  IF ~a.ok THEN [ok |-> FALSE, route |-> r1]
                      ELSE [ok |-> TRUE,
                            route |-> [r1 EXCEPT !.current_stop = <<a.stop>>,
                                                 !.load = @ - 1]]

\* Route.nb_free_places
NbFreePlaces(route, capacity) == capacity - route.load

\* Route.requests_to_pickup
RequestsToPickup(route) == route.current_stop[1].passengers_to_board

\* copy.deepcopy of a list of stops
RECURSIVE StopsDeepCopy(_)
StopsDeepCopy(stops) ==
    IF stops = <<>> THEN <<>>
    ELSE <<StopDeepCopy(Head(stops))>> \o StopsDeepCopy(Tail(stops))

\* Route.__deepcopy__: previous_stops and alighted_legs are dropped
RouteDeepCopy(route) ==
    [route EXCEPT !.previous_stops = <<>>,
                  !.alighted_legs = <<>>,
                  !.current_stop = StopsDeepCopy(@),
                  !.next_stops = StopsDeepCopy(@)]

\* Leg.__init__
NewLeg ==
    [assigned_vehicle |-> None, boarding_time |-> NoTime,
     alighting_time |-> NoTime]

\* a setter that overwrites the assigned vehicle
LegSetAssignedVehicleOverwrite(leg, vehicle) ==
    [ok |-> TRUE, leg |-> [leg EXCEPT !.assigned_vehicle = vehicle]]

\* a setter that keeps the first assigned vehicle and does not raise
LegSetAssignedVehicleKeepFirst(leg, vehicle) ==
    IF leg.assigned_vehicle # None THEN [ok |-> TRUE, leg |-> leg]
    ELSE [ok |-> TRUE, leg |-> [leg EXCEPT !.assigned_vehicle = vehicle]]

\* Leg.assigned_vehicle (setter)
LegSetAssignedVehicle(leg, vehicle) ==
    IF leg.assigned_vehicle # None /\ leg.assigned_vehicle # vehicle
    THEN [ok |-> FALSE, leg |-> leg]
    ELSE [ok |-> TRUE, leg |-> [leg EXCEPT !.assigned_vehicle = vehicle]]

\* Trip.__init__: current_leg is a list of at most one leg (empty: None)
NewTrip ==
    [previous_legs |-> <<>>, current_leg |-> <<>>, next_legs |-> <<>>,
     status |-> "RELEASE"]

\* Trip.assign_legs
TripAssignLegs(trip, legs) == [trip EXCEPT !.next_legs = legs]

\* a start that takes the last of the next legs
TripStartLastLeg(trip) ==
    IF Len(trip.next_legs) > 0
    THEN [ok |-> TRUE,
          trip |-> [trip EXCEPT
                       !.current_leg = <<trip.next_legs[Len(trip.next_legs)]>>,
                       !.next_legs = SubSeq(@, 1, Len(@) - 1)]]
    ELSE [ok |-> FALSE, trip |-> trip]

\* Trip.start_next_leg
TripStartNextLeg(trip) ==
    IF Len(trip.next_legs) > 0
    THEN [ok |-> TRUE,
          trip |-> [trip EXCEPT !.current_leg = <<Head(trip.next_legs)>>,
                                !.next_legs = Tail(@)]]
    ELSE [ok |-> FALSE, trip |-> trip]

\* Trip.finish_current_leg (a current_leg of None is appended as None)
TripFinishCurrentLeg(trip) ==
    [trip EXCEPT !.previous_legs =
                     @ \o (IF trip.current_leg = <<>> THEN <<None>>
                           ELSE trip.current_leg),
                 !.current_leg = <<>>]

\* Trip.__deepcopy__: every field is copied (the key it tests for,
\* "_Route__previous_legs", is no attribute of a Trip)
TripDeepCopy(trip) ==
    [previous_legs |-> trip.previous_legs,
     current_leg |-> trip.current_leg,
     next_legs |-> trip.next_legs,
     status |-> trip.status]

-----------------------------------------------------------------------------
(* Event queue *)

\* Event.__init__ / ActionEvent.__init__: veh is the owner of the event's
\* state machine (None for an event that has none), data its payload
NewEvent(type, time, priority, veh, trip, data) ==
    [type |-> type, time |-> time, priority |-> priority, index |-> 0,
     veh |-> veh, trip |-> trip, data |-> data]

\* Event.__lt__: by time, then priority, then insertion index
EventLess(a, b) ==
    \/ a.time < b.time
    \/ a.time = b.time /\ a.priority < b.priority
    \/ a.time = b.time /\ a.priority = b.priority /\ a.index < b.index

\* EventQueue.is_empty
IsEmpty(q) == q = <<>>

\* a put that stamps the index and does not advance it
EventQueuePutSameIndex(Q, event) ==
    [queue |-> Append(Q.queue, [event EXCEPT !.index = Q.index]),
     index |-> Q.index]

\* EventQueue.put: Q is the queue with its index counter
EventQueuePut(Q, event) ==
    [queue |-> Append(Q.queue, [event EXCEPT !.index = Q.index]),
     index |-> Q.index + 1]

\* PriorityQueue.get: the positions of the events no other event precedes
MinPositions(q) ==
    {i \in DOMAIN q : \A j \in DOMAIN q : ~EventLess(q[j], q[i])}

\* EventQueue.pop, taking the event at position i
EventQueuePop(q, i) ==
    [event |-> q[i],
     queue |-> SubSeq(q, 1, i - 1) \o SubSeq(q, i + 1, Len(q))]

\* EventQueue.__is_event_looked_for
IsEventLookedFor(event, event_type, time) ==
    \/ time # NoTime /\ event.time = time /\ event.type = event_type
    \/ time = NoTime /\ event.type = event_type

\* EventQueue.is_event_type_in_queue
IsEventTypeInQueue(q, event_type, time, owner) ==
    \E i \in DOMAIN q :
        \/ owner # None /\ q[i].veh = owner
             /\ IsEventLookedFor(q[i], event_type, time)
        \/ owner = None /\ IsEventLookedFor(q[i], event_type, time)

\* a rounding down to a multiple of batch
OptimizeTimeDown(time, batch) ==
    IF batch # NoTime THEN time - (time % batch) ELSE time

\* Optimize.__init__: the time of the event (batch NoTime: no batch)
OptimizeTime(time, batch) ==
    IF batch # NoTime THEN time + ((batch - (time % batch)) % batch)
    ELSE time

\* an add_to_queue that puts the event whatever is pending
OptimizeAddToQueueAlways(Q, time, multiple_optimize_events) ==
    EventQueuePut(Q, NewEvent("Optimize", time, OptimizePriority,
                              None, None, <<>>))

\* Optimize.add_to_queue
OptimizeAddToQueue(Q, time, multiple_optimize_events) ==
    IF multiple_optimize_events
       \/ ~IsEventTypeInQueue(Q.queue, "Optimize", time, None)
    THEN EventQueuePut(Q, NewEvent("Optimize", time, OptimizePriority,
                                   None, None, <<>>))
    ELSE Q

\* VehicleComplete.__init__ and VehicleComplete.add_to_queue
VehicleCompleteAddToQueue(Q, veh, event_time, forced_insertion) ==
    IF ~IsEventTypeInQueue(Q.queue, "VehicleComplete", NoTime, veh)
       \/ forced_insertion
    THEN EventQueuePut(Q, NewEvent("VehicleComplete", event_time, LowPriority,
                                   veh, None, <<>>))
    ELSE Q

-----------------------------------------------------------------------------
(* Snapshot (State).  An object is addressed by a reference [w, id]: w     *)
(* names the object store that holds it ("live": the Environment's         *)
(* objects, "snap": the objects the deep copy created).  A heap h is the   *)
(* pair [live |-> env, snap |-> snap]; reads and writes go through the     *)
(* reference.                                                              *)

ReadTrip(h, ref) == h[ref.w].tripObj[ref.id]
ReadLeg(h, ref) == h[ref.w].legObj[ref.id]
ReadRoute(h, ref) == h[ref.w].routes[ref.id]
WriteLeg(h, ref, leg) == [h EXCEPT ![ref.w].legObj[ref.id] = leg]
WriteRoute(h, ref, route) == [h EXCEPT ![ref.w].routes[ref.id] = route]

\* a copy of a trip that is the trip itself (a shallow copy of the registry)
TripSameRef(trip_id) == [w |-> "live", id |-> trip_id]

\* a copy of a route that is the route itself
RouteSameRef(veh_id) == [w |-> "live", id |-> veh_id]

\* Trip.__deepcopy__: result = cls.__new__(cls), a new object
TripCopyRef(trip_id) == [w |-> "snap", id |-> trip_id]

\* Route.__deepcopy__: result = cls.__new__(cls), a new object
RouteCopyRef(veh_id) == [w |-> "snap", id |-> veh_id]

RECURSIVE MapTripRefs(_)
MapTripRefs(ids) ==
    IF ids = <<>> THEN <<>>
    ELSE <<TripCopyRef(Head(ids))>> \o MapTripRefs(Tail(ids))

\* Environment.__get_non_complete_vehicles
GetNonCompleteVehicles(e, vehicles) ==
    LET NonComplete(v) == e.vstatus[v] # "COMPLETE"
    IN  SelectSeq(vehicles, NonComplete)

\* Environment.__get_non_complete_trips
GetNonCompleteTrips(e, trips) ==
    LET NonComplete(t) == e.tripObj[t].status # "COMPLETE"
    IN  SelectSeq(trips, NonComplete)

\* Environment.get_new_state: the registry of the snapshot
GetNewState(e, time) ==
    [current_time |-> time,
     vehicles |-> GetNonCompleteVehicles(e, e.vehicles),
     trips |-> MapTripRefs(GetNonCompleteTrips(e, e.trips)),
     assigned_trips |-> MapTripRefs(GetNonCompleteTrips(e, e.assigned_trips)),
     non_assigned_trips |-> MapTripRefs(e.non_assigned_trips),
     route_by_vehicle_id |-> [v \in DOMAIN e.routes |-> RouteCopyRef(v)],
     frozen |-> [v \in DOMAIN e.routes |-> {}]]

\* Environment.get_new_state: the objects copy.deepcopy creates
GetNewStateObjects(e) ==
    [tripObj |-> [t \in DOMAIN e.tripObj |-> TripDeepCopy(e.tripObj[t])],
     legObj |-> e.legObj,
     routes |-> [v \in DOMAIN e.routes |-> RouteDeepCopy(e.routes[v])],
     vstatus |-> e.vstatus]

\* a leg of a trip: the leg's id, the store of its trip
LegRef(trip_ref, leg_id) == [w |-> trip_ref.w, id |-> leg_id]

\* State.next_legs: the next legs of the trips of the state
RECURSIVE NextLegsOf(_, _)
NextLegsOf(h, trip_refs) ==
    IF trip_refs = <<>> THEN <<>>
    ELSE LET ref == Head(trip_refs)
             legs == ReadTrip(h, ref).next_legs
         IN  (IF legs = <<>> THEN <<>> ELSE <<LegRef(ref, legs[1])>>)
             \o NextLegsOf(h, Tail(trip_refs))

\* State.freeze_routes_for_time_interval / unfreeze_routes_for_time_interval:
\* the stops that leave within the interval are the frozen ones
\* (position 0: the current stop, position i: next_stops[i])
FrozenStops(route, time, freeze_interval) ==
    LET InInterval(stop) == /\ stop.departure_time >= time
                            /\ stop.departure_time <= time + freeze_interval
    IN  {i \in {0} : route.current_stop # <<>>
                     /\ InInterval(route.current_stop[1])}
        \cup {i \in DOMAIN route.next_stops : InInterval(route.next_stops[i])}

\* State.freeze_routes_for_time_interval
FreezeRoutes(h, st, freeze_interval) ==
    [st EXCEPT !.current_time = @ + freeze_interval,
               !.frozen = [v \in DOMAIN st.route_by_vehicle_id |->
                              FrozenStops(
                                  ReadRoute(h, st.route_by_vehicle_id[v]),
                                  st.current_time, freeze_interval)]]

\* State.unfreeze_routes_for_time_interval
UnfreezeRoutes(st, freeze_interval) ==
    [st EXCEPT !.current_time = @ - freeze_interval,
               !.frozen = [v \in DOMAIN @ |-> {}]]

-----------------------------------------------------------------------------
(* Dispatcher contract and route plans *)

\* Dispatcher.prepare_input
PrepareInput(h, st) ==
    [selected_next_legs |-> NextLegsOf(h, st.trips),
     selected_routes |-> {st.route_by_vehicle_id[v] :
                              v \in DOMAIN st.route_by_vehicle_id}]

\* a test that calls optimize whenever there is a route
DispatchOptimizesWithRoutes(input) == input.selected_routes # {}

\* Dispatcher.dispatch, the test before optimize is called
DispatchOptimizes(input) ==
    Len(input.selected_next_legs) > 0 /\ input.selected_routes # {}

\* OptimizedRoutePlan.__init__
NewOptimizedRoutePlan(route_ref) ==
    [route |-> route_ref, current_stop_departure_time |-> NoTime,
     next_stops |-> <<>>, assigned_legs |-> <<>>]

\* OptimizedRoutePlan.update_current_stop_departure_time
UpdateCurrentStopDepartureTime(plan, departure_time) ==
    [plan EXCEPT !.current_stop_departure_time = departure_time]

\* OptimizedRoutePlan.append_next_stop
AppendNextStop(plan, stop_id, arrival_time, departure_time) ==
    LET dep == IF departure_time = NoTime THEN arrival_time
               ELSE departure_time
    IN  [plan EXCEPT !.next_stops =
                         Append(@, NewStop(arrival_time, dep, stop_id))]

\* OptimizedRoutePlan.assign_leg: the leg is given the vehicle of the plan's
\* route, then appended to the plan
PlanAssignLeg(h, plan, leg_ref) ==
    LET r == LegSetAssignedVehicle(ReadLeg(h, leg_ref), plan.route.id)
    IN  IF ~r.ok THEN [ok |-> FALSE, h |-> h, plan |-> plan]
        ELSE [ok |-> TRUE, h |-> WriteLeg(h, leg_ref, r.leg),
              plan |-> [plan EXCEPT !.assigned_legs = Append(@, leg_ref)]]

\* an update that keeps the departure time the plan gives its last stop
UpdateRouteNextStopsKeepLast(route, plan) ==
    LET r1 == IF route.current_stop # <<>>
              THEN LET d == StopSetDepartureTime(
                                route.current_stop[1],
                                plan.current_stop_departure_time)
                   IN  [ok |-> d.ok,
                        route |-> [route EXCEPT !.current_stop = <<d.stop>>]]
              ELSE [ok |-> TRUE, route |-> route]
    IN  IF ~r1.ok THEN r1
        ELSE [ok |-> TRUE,
              route |-> [r1.route EXCEPT !.next_stops = plan.next_stops]]

\* Dispatcher.__update_route_next_stops
UpdateRouteNextStops(route, plan) ==
    LET r1 == IF route.current_stop # <<>>
              THEN LET d == StopSetDepartureTime(
                                route.current_stop[1],
                                plan.current_stop_departure_time)
                   IN  [ok |-> d.ok,
                        route |-> [route EXCEPT !.current_stop = <<d.stop>>]]
              ELSE [ok |-> TRUE, route |-> route]
        r2 == [r1.route EXCEPT !.next_stops = plan.next_stops]
        n == Len(plan.next_stops)
    IN  IF ~r1.ok THEN r1
        ELSE IF n > 0
        THEN [ok |-> TRUE,
              route |-> [r2 EXCEPT !.next_stops[n].departure_time = Inf]]
        ELSE [ok |-> TRUE, route |-> r2]

\* an assignment that takes the first stop at the destination as the
\* alighting stop, whether or not a boarding stop was found before it
AssignTripToStopsUnordered(route, origin, destination, trip) ==
    LET atCurrent == route.current_stop # <<>>
                     /\ origin = route.current_stop[1].location
        r1 == IF atCurrent
              THEN [route EXCEPT
                       !.current_stop[1].passengers_to_board =
                           Append(@, trip)]
              ELSE route
        stops == r1.next_stops
        b == {i \in DOMAIN stops : stops[i].location = origin}
        a == {i \in DOMAIN stops : stops[i].location = destination}
        First(S) == CHOOSE i \in S : \A j \in S : i <= j
        s1 == IF atCurrent \/ b = {} THEN stops
              ELSE [stops EXCEPT ![First(b)].passengers_to_board =
                                     Append(@, trip)]
        s2 == IF a = {} THEN s1
              ELSE [s1 EXCEPT ![First(a)].passengers_to_alight =
                                  Append(@, trip)]
    IN  [r1 EXCEPT !.next_stops = s2]

\* Dispatcher.__assign_trip_to_stops, the loop over next_stops from stop i:
\* b, a: boarding_stop_found, alighting_stop_found
RECURSIVE AssignTripToNextStops(_, _, _, _, _, _, _)
AssignTripToNextStops(stops, i, origin, destination, trip, b, a) ==
    IF i > Len(stops) THEN stops
    ELSE IF origin = stops[i].location /\ ~b
    THEN AssignTripToNextStops(
             [stops EXCEPT ![i].passengers_to_board = Append(@, trip)],
             i + 1, origin, destination, trip, TRUE, a)
    ELSE IF destination = stops[i].location /\ b /\ ~a
    THEN AssignTripToNextStops(
             [stops EXCEPT ![i].passengers_to_alight = Append(@, trip)],
             i + 1, origin, destination, trip, b, TRUE)
    ELSE AssignTripToNextStops(stops, i + 1, origin, destination, trip, b, a)

\* Dispatcher.__assign_trip_to_stops
AssignTripToStops(route, origin, destination, trip) ==
    LET atCurrent == route.current_stop # <<>>
                     /\ origin = route.current_stop[1].location
        r1 == IF atCurrent
              THEN [route EXCEPT
                       !.current_stop[1].passengers_to_board =
                           Append(@, trip)]
              ELSE route
    IN  [r1 EXCEPT !.next_stops =
            AssignTripToNextStops(@, 1, origin, destination, trip,
                                  atCurrent, FALSE)]

\* Dispatcher.__process_route_plan, the loop over the legs of the plan from
\* leg i (the origin and destination of a leg are those of its trip)
RECURSIVE AssignLegs(_, _, _)
AssignLegs(route, legs, i) ==
    IF i > Len(legs) THEN route
    ELSE AssignLegs(
             AssignTripToStops(RouteAssignLeg(route, legs[i].id),
                               cfg.trip[legs[i].id].origin,
                               cfg.trip[legs[i].id].destination,
                               legs[i].id),
             legs, i + 1)

\* an application of the plan to every route of the plan's world
ProcessRoutePlanEveryRoute(h, plan) ==
    LET u == UpdateRouteNextStops(ReadRoute(h, plan.route), plan)
    IN  IF ~u.ok THEN [ok |-> FALSE, h |-> h]
        ELSE [ok |-> TRUE,
              h |-> [h EXCEPT ![plan.route.w].routes =
                        [v \in DOMAIN @ |->
                            AssignLegs(UpdateRouteNextStops(@[v], plan).route,
                                       plan.assigned_legs, 1)]]]

\* Dispatcher.__process_route_plan
ProcessRoutePlan(h, plan) ==
    LET u == UpdateRouteNextStops(ReadRoute(h, plan.route), plan)
    IN  IF ~u.ok THEN [ok |-> FALSE, h |-> h]
        ELSE [ok |-> TRUE,
              h |-> WriteRoute(h, plan.route,
                               AssignLegs(u.route, plan.assigned_legs, 1))]

\* Dispatcher.process_optimized_route_plans, the loop from plan i
RECURSIVE ProcessPlansFrom(_, _, _, _, _)
ProcessPlansFrom(h, ps, i, modified_trips, modified_vehicles) ==
    IF i > Len(ps)
    THEN [ok |-> TRUE, h |-> h, modified_requests |-> modified_trips,
          modified_vehicles |-> modified_vehicles]
    ELSE LET r == ProcessRoutePlan(h, ps[i])
         IN  IF ~r.ok
             THEN [ok |-> FALSE, h |-> r.h,
                   modified_requests |-> modified_trips,
                   modified_vehicles |-> modified_vehicles]
             ELSE ProcessPlansFrom(r.h, ps, i + 1,
                                   modified_trips \o ps[i].assigned_legs,
                                   Append(modified_vehicles, ps[i].route.id))

\* Dispatcher.process_optimized_route_plans
ProcessOptimizedRoutePlans(h, ps) == ProcessPlansFrom(h, ps, 1, <<>>, <<>>)

-----------------------------------------------------------------------------
(* Lifecycle state machines and event construction *)

\* VehicleStateMachine: the status an event of the given class leads to
\* (the status is kept when the machine has no transition for the event)
VehicleNextStatus(status, event_type) ==
    CASE status = "RELEASE" /\ event_type = "VehicleWaiting" -> "IDLE"
      [] status = "IDLE" /\ event_type = "VehicleWaiting" -> "IDLE"
      [] status = "IDLE" /\ event_type = "VehicleBoarding" -> "BOARDING"
      [] status = "IDLE" /\ event_type = "VehicleDeparture" -> "ENROUTE"
      [] status = "IDLE" /\ event_type = "VehicleComplete" -> "COMPLETE"
      [] status = "BOARDING" /\ event_type = "VehicleWaiting" -> "IDLE"
      [] status = "ENROUTE" /\ event_type = "VehicleArrival" -> "ALIGHTING"
      [] status = "ALIGHTING" /\ event_type = "VehicleWaiting" -> "IDLE"
      [] OTHER -> status

\* PassengerStateMachine: the status an event of the given class leads to
PassengerNextStatus(status, event_type) ==
    CASE status = "RELEASE" /\ event_type = "PassengerAssignment" -> "ASSIGNED"
      [] status = "ASSIGNED" /\ event_type = "PassengerReady" -> "READY"
      [] status = "READY" /\ event_type = "PassengerToBoard" -> "ONBOARD"
      [] status = "ONBOARD" /\ event_type = "PassengerAlighting" -> "COMPLETE"
      [] OTHER -> status

\* ActionEvent.process: the state machine of the event's owner advances
\* before the handler runs
NextState(e, event) ==
    IF event.veh # None /\ event.type \in {"VehicleReady", "VehicleWaiting",
           "VehicleBoarding", "VehicleDeparture", "VehicleArrival",
           "VehicleComplete"}
    THEN [e EXCEPT !.vstatus[event.veh] = VehicleNextStatus(@, event.type)]
    ELSE IF event.trip # None /\ event.type \in {"PassengerRelease",
           "PassengerAssignment", "PassengerReady", "PassengerToBoard",
           "PassengerAlighting"}
    THEN [e EXCEPT !.tripObj[event.trip].status =
                       PassengerNextStatus(@, event.type)]
    ELSE e

\* Event.__init__: the times an event asked for at time t can be given when
\* the simulation is at time now
EventTimes(t, now) == IF t < now THEN {t, now} ELSE {t}

\* the events of the vehicle handlers
VehicleWaitingEvent(veh, time) ==
    NewEvent("VehicleWaiting", time, StandardPriority, veh, None, <<>>)

VehicleBoardingEvent(veh, time) ==
    NewEvent("VehicleBoarding", time, StandardPriority, veh, None, <<>>)

VehicleDepartureEvent(veh, time) ==
    NewEvent("VehicleDeparture", time, StandardPriority, veh, None, <<>>)

VehicleArrivalEvent(veh, time) ==
    NewEvent("VehicleArrival", time, StandardPriority, veh, None, <<>>)

\* VehicleBoarded.__init__: the route is that of the vehicle assigned to the
\* current leg of the trip
VehicleBoardedEvent(veh, trip, time) ==
    NewEvent("VehicleBoarded", time, StandardPriority, veh, trip, <<>>)

\* VehicleAlighted.__init__: the route is that of the leg's vehicle
VehicleAlightedEvent(veh, leg, time) ==
    NewEvent("VehicleAlighted", time, StandardPriority, veh, leg, <<>>)

\* VehicleNotification.__init__
VehicleNotificationEvent(route_update, time) ==
    NewEvent("VehicleNotification", time, StandardPriority,
             route_update.vehicle_id, None, <<route_update>>)

\* the events of the passenger handlers
PassengerEvent(type, trip, time) ==
    NewEvent(type, time, StandardPriority, None, trip, <<>>)

\* a PassengerAssignment event that gives way to the Optimize events
PassengerAssignmentEventLate(passenger_update, time) ==
    NewEvent("PassengerAssignment", time, OptimizePriority + 1, None,
             passenger_update.request_id, <<passenger_update>>)

\* PassengerAssignment.__init__
PassengerAssignmentEvent(passenger_update, time) ==
    NewEvent("PassengerAssignment", time, StandardPriority, None,
             passenger_update.request_id, <<passenger_update>>)

\* EnvironmentUpdate.__init__ / EnvironmentIdle.__init__
EnvironmentUpdateEvent(optimization_result, time) ==
    NewEvent("EnvironmentUpdate", time, StandardPriority, None, None,
             <<optimization_result>>)

EnvironmentIdleEvent(time) ==
    NewEvent("EnvironmentIdle", time, StandardPriority, None, None, <<>>)

\* a setter of current_time that accepts every time
SetCurrentTimeUnchecked(time, new_time) ==
    [ok |-> TRUE, current_time |-> new_time]

\* Environment.current_time (setter)
SetCurrentTime(time, new_time) ==
    IF new_time < time THEN [ok |-> FALSE, current_time |-> time]
    ELSE [ok |-> TRUE, current_time |-> new_time]

-----------------------------------------------------------------------------
(* Vehicle event handlers.  A handler maps the live Environment e and the  *)
(* queue Q (with its index counter) to [ok, env, Q]: ok is FALSE when the  *)
(* handler raised, env and Q are then as the raise left them.              *)

\* VehicleReady._process (the route is the one read with the vehicle: its
\* start stop and its next stops)
VehicleReadyProcess(e, Q, event, now) ==
    LET v == event.veh
        route == [NewRoute(cfg.vehicle[v].start_stop)
                     EXCEPT !.next_stops = cfg.vehicle[v].next_stops]
        e1 == [e EXCEPT !.vehicles = Append(@, v),
                        !.routes = [x \in DOMAIN @ \cup {v} |->
                                        IF x = v THEN route ELSE @[x]]]
    IN  [ok |-> TRUE, env |-> e1,
         Q |-> EventQueuePut(Q, VehicleWaitingEvent(v, now))]

\* a VehicleWaiting that schedules the departure whatever the time is
DepartureTimeIgnored(stop, now) == TRUE

\* VehicleWaiting._process: the test before VehicleDeparture
DepartureTimeReached(stop, now) == ~(stop.departure_time > now)

\* a VehicleComplete at the current time whatever the end_time is
CompleteTimeNow(end_time, now) == now

\* VehicleComplete.__init__: max(route.vehicle.end_time, current_time)
CompleteTime(end_time, now) == IF end_time > now THEN end_time ELSE now

\* VehicleWaiting._process: tt is the time the VehicleDeparture event is
\* given
VehicleWaitingProcess(e, Q, event, now, tt) ==
    LET v == event.veh
        route == e.routes[v]
        Q1 == OptimizeAddToQueue(Q, OptimizeTime(now, NoTime), FALSE)
    IN  IF route.current_stop = <<>> THEN [ok |-> FALSE, env |-> e, Q |-> Q1]
        ELSE IF Len(RequestsToPickup(route)) > 0
        THEN [ok |-> TRUE, env |-> e,
              Q |-> EventQueuePut(Q1, VehicleBoardingEvent(v, now))]
        ELSE IF Len(route.next_stops) > 0
        THEN IF ~DepartureTimeReached(route.current_stop[1], now)
             THEN [ok |-> TRUE, env |-> e,
                   Q |-> EventQueuePut(Q1, VehicleWaitingEvent(
                             v, route.current_stop[1].departure_time))]
             ELSE [ok |-> TRUE, env |-> e,
                   Q |-> EventQueuePut(Q1, VehicleDepartureEvent(v, tt))]
        ELSE [ok |-> TRUE, env |-> e,
              Q |-> VehicleCompleteAddToQueue(
                        Q1, v,
                        CompleteTime(cfg.vehicle[v].end_time, now),
                        FALSE)]

\* VehicleBoarding._process, the loop over the copy of passengers_to_board
RECURSIVE BoardingLoop(_, _, _, _, _)
BoardingLoop(route, Q, v, reqs, now) ==
    IF reqs = <<>> THEN [ok |-> TRUE, route |-> route, Q |-> Q]
    ELSE LET r == RouteInitiateBoarding(route, Head(reqs))
         IN  IF ~r.ok THEN [ok |-> FALSE, route |-> r.route, Q |-> Q]
             ELSE BoardingLoop(
                      r.route,
                      EventQueuePut(Q, PassengerEvent("PassengerToBoard",
                                                      Head(reqs), now)),
                      v, Tail(reqs), now)

\* VehicleBoarding._process
VehicleBoardingProcess(e, Q, event, now) ==
    LET v == event.veh
        route == e.routes[v]
    IN  IF route.current_stop = <<>> THEN [ok |-> FALSE, env |-> e, Q |-> Q]
        ELSE LET r == BoardingLoop(route, Q, v,
                                   route.current_stop[1].passengers_to_board,
                                   now)
             IN  [ok |-> r.ok, env |-> [e EXCEPT !.routes[v] = r.route],
                  Q |-> r.Q]

\* VehicleDeparture._process (no travel_times provider): tt is the time the
\* VehicleArrival event is given
VehicleDepartureProcess(e, Q, event, now, tt) ==
    LET v == event.veh
        route == e.routes[v]
    IN  IF route.next_stops = <<>> THEN [ok |-> FALSE, env |-> e, Q |-> Q]
        ELSE [ok |-> TRUE,
              env |-> [e EXCEPT !.routes[v] = RouteDepart(route)],
              Q |-> EventQueuePut(Q, VehicleArrivalEvent(v, tt))]

\* float addition with math.inf
AddTime(x, d) == IF x = Inf THEN Inf ELSE x + d

\* an update that moves every stop by the delay of the arrival
UpdateStopTimesUniform(stops, i, delta_time) ==
    [k \in DOMAIN stops |->
         [stops[k] EXCEPT !.arrival_time = AddTime(@, delta_time),
                          !.departure_time = AddTime(@, delta_time)]]

\* VehicleArrival.__update_stop_times, the loop over next_stops from stop i
\* (math.inf is the departure time of the last stop only, whose delta is not
\* used; the new departure time is not below min_departure_time, so the
\* setter does not raise)
RECURSIVE UpdateStopTimes(_, _, _)
UpdateStopTimes(stops, i, delta_time) ==
    IF i > Len(stops) THEN stops
    ELSE LET moved == AddTime(stops[i].departure_time, delta_time)
             new_departure_time ==
                 IF stops[i].min_departure_time = NoTime THEN moved
                 ELSE IF moved >= stops[i].min_departure_time THEN moved
                 ELSE stops[i].min_departure_time
             delta == IF stops[i].departure_time = Inf THEN 0
                      ELSE new_departure_time - stops[i].departure_time
         IN  UpdateStopTimes(
                 [stops EXCEPT ![i].arrival_time = AddTime(@, delta_time),
                               ![i].departure_time = new_departure_time],
                 i + 1, delta)

\* VehicleArrival._process, the loop over the copy of passengers_to_alight:
\* a trip alights when its current leg is on board
RECURSIVE AlightingLoop(_, _, _, _, _)
AlightingLoop(e, route, Q, trips, now) ==
    IF trips = <<>> THEN [ok |-> TRUE, route |-> route, Q |-> Q]
    ELSE LET trip == Head(trips)
             onboard == trip \in DOMAIN e.tripObj
                        /\ e.tripObj[trip].current_leg # <<>>
                        /\ Contains(route.onboard_legs,
                                    e.tripObj[trip].current_leg[1])
         IN  IF trip \notin DOMAIN e.tripObj
             THEN [ok |-> FALSE, route |-> route, Q |-> Q]
             ELSE IF ~onboard
             THEN AlightingLoop(e, route, Q, Tail(trips), now)
             ELSE LET r == RouteInitiateAlighting(route, trip)
                  IN  IF ~r.ok THEN [ok |-> FALSE, route |-> r.route, Q |-> Q]
                      ELSE AlightingLoop(
                               e, r.route,
                               EventQueuePut(Q, PassengerEvent(
                                   "PassengerAlighting", trip, now)),
                               Tail(trips), now)

\* an arrival that never puts the VehicleWaiting event
NobodyAlightsNever(to_alight) == FALSE

\* VehicleArrival._process: the test before VehicleWaiting
NobodyAlights(to_alight) == Len(to_alight) = 0

\* a vehicle completes on every arrival at the end of its route
CompletesOnArrivalAlways(v, route) == Len(route.next_stops) = 0

\* VehicleArrival._process: the arrival that completes the vehicle
CompletesOnArrival(v, route) ==
    Len(route.next_stops) = 0 /\ ~cfg.vehicle[v].reusable

\* VehicleArrival._process
VehicleArrivalProcess(e, Q, event, now) ==
    LET v == event.veh
        route == e.routes[v]
    IN  IF route.next_stops = <<>> THEN [ok |-> FALSE, env |-> e, Q |-> Q]
        ELSE
        LET r1 == RouteArrive(
                      [route EXCEPT !.next_stops =
                          UpdateStopTimes(@, 1,
                                          now - route.next_stops[1].arrival_time)])
            Q1 == IF CompletesOnArrival(v, r1)
                  THEN VehicleCompleteAddToQueue(Q, v, now, TRUE)
                  ELSE Q
            to_alight == r1.current_stop[1].passengers_to_alight
            a == AlightingLoop(e, r1, Q1, to_alight, now)
        IN  [ok |-> a.ok, env |-> [e EXCEPT !.routes[v] = a.route],
             Q |-> IF a.ok /\ NobodyAlights(to_alight)
                   THEN EventQueuePut(a.Q, VehicleWaitingEvent(v, now))
                   ELSE a.Q]

\* VehicleNotification.__replace_copy_trips_with_actual_trips
\* (Environment.get_trip_by_id gives None for a trip the environment lacks)
RECURSIVE ReplaceCopyTripsWithActualTrips(_, _)
ReplaceCopyTripsWithActualTrips(e, trips_list) ==
    IF trips_list = <<>> THEN <<>>
    ELSE <<IF Contains(e.trips, Head(trips_list)) THEN Head(trips_list)
           ELSE None>>
         \o ReplaceCopyTripsWithActualTrips(e, Tail(trips_list))

\* VehicleNotification.__replace_copy_legs_with_actual_legs
\* (Environment.get_leg_by_id looks the leg up in the trips of the
\* environment; a trip has one leg, named after it)
RECURSIVE ReplaceCopyLegsWithActualLegs(_, _)
ReplaceCopyLegsWithActualLegs(e, legs_list) ==
    IF legs_list = <<>> THEN <<>>
    ELSE <<IF Contains(e.trips, Head(legs_list)) THEN Head(legs_list)
           ELSE None>>
         \o ReplaceCopyLegsWithActualLegs(e, Tail(legs_list))

\* VehicleNotification.__update_stop_with_actual_trips over the deep copy of
\* the stops of the route update
RECURSIVE UpdateStopsWithActualTrips(_, _)
UpdateStopsWithActualTrips(e, stops) ==
    IF stops = <<>> THEN <<>>
    ELSE LET stop == StopDeepCopy(Head(stops))
         IN  <<[stop EXCEPT
                  !.passengers_to_board =
                      ReplaceCopyTripsWithActualTrips(e, @),
                  !.boarding_passengers =
                      ReplaceCopyTripsWithActualTrips(e, @),
                  !.boarded_passengers =
                      ReplaceCopyTripsWithActualTrips(e, @),
                  !.passengers_to_alight =
                      ReplaceCopyTripsWithActualTrips(e, @)]>>
             \o UpdateStopsWithActualTrips(e, Tail(stops))

\* s extended by all the elements of xs
AppendAll(s, xs) == s \o xs

\* s extended by the elements of xs that it does not hold yet
RECURSIVE AppendIfAbsent(_, _)
AppendIfAbsent(s, xs) ==
    IF xs = <<>> THEN s
    ELSE AppendIfAbsent(IF Contains(s, Head(xs)) THEN s
                        ELSE Append(s, Head(xs)),
                        Tail(xs))

\* VehicleNotification._process
VehicleNotificationProcess(e, Q, event, now) ==
    LET ru == event.data[1]
        v == ru.vehicle_id
        route == e.routes[v]
        r1 == [route EXCEPT !.next_stops =
                                UpdateStopsWithActualTrips(e, ru.next_stops)]
        r2 == IF ru.has_current_stop /\ r1.current_stop # <<>>
              THEN [r1 EXCEPT !.current_stop[1].passengers_to_board =
                       AppendIfAbsent(@, ReplaceCopyTripsWithActualTrips(
                           e, ru.current_stop_modified_passengers_to_board))]
              ELSE r1
        changed == /\ ru.current_stop_departure_time # NoTime
                   /\ r2.current_stop # <<>>
                   /\ r2.current_stop[1].departure_time
                          # ru.current_stop_departure_time
        d == IF changed
             THEN StopSetDepartureTime(r2.current_stop[1],
                                       ru.current_stop_departure_time)
             ELSE [ok |-> TRUE, stop |-> <<>>]
        r3 == IF changed /\ d.ok THEN [r2 EXCEPT !.current_stop = <<d.stop>>]
              ELSE r2
        Q1 == IF changed /\ d.ok
              THEN EventQueuePut(Q, VehicleWaitingEvent(v, now))
              ELSE Q
        r4 == [r3 EXCEPT !.assigned_legs =
                  AppendIfAbsent(@, ReplaceCopyLegsWithActualLegs(
                                        e, ru.modified_assigned_legs))]
    IN  IF /\ ru.has_current_stop /\ r1.current_stop = <<>>
           /\ ru.current_stop_modified_passengers_to_board # <<>>
        THEN [ok |-> FALSE, env |-> [e EXCEPT !.routes[v] = r1], Q |-> Q]
        ELSE IF ~d.ok
        THEN [ok |-> FALSE, env |-> [e EXCEPT !.routes[v] = r2], Q |-> Q]
        ELSE [ok |-> TRUE, env |-> [e EXCEPT !.routes[v] = r4], Q |-> Q1]

\* a VehicleBoarded that goes back to VehicleWaiting after every passenger
BoardingDoneAlways(stop) == TRUE

\* VehicleBoarded._process: the test before VehicleWaiting
BoardingDone(stop) == Len(stop.boarding_passengers) = 0

\* VehicleBoarded._process
VehicleBoardedProcess(e, Q, event, now) ==
    LET v == event.veh
        trip == event.trip
        current_leg == IF e.tripObj[trip].current_leg = <<>> THEN None
                       ELSE e.tripObj[trip].current_leg[1]
        b == RouteBoard(e.routes[v], trip, current_leg)
        e1 == [e EXCEPT !.routes[v] = b.route]
    IN  IF ~b.ok THEN [ok |-> FALSE, env |-> e1, Q |-> Q]
        ELSE IF BoardingDone(b.route.current_stop[1])
        THEN [ok |-> TRUE, env |-> e1,
              Q |-> EventQueuePut(Q, VehicleWaitingEvent(v, now))]
        ELSE IF Len(RequestsToPickup(b.route)) > 0
        THEN [ok |-> TRUE, env |-> e1,
              Q |-> EventQueuePut(Q, VehicleBoardingEvent(v, now))]
        ELSE [ok |-> TRUE, env |-> e1, Q |-> Q]

\* VehicleAlighted._process (the event's trip field names the leg)
VehicleAlightedProcess(e, Q, event, now) ==
    LET v == event.veh
        leg == event.trip
        a == RouteAlight(e.routes[v], leg, leg)
        e1 == [e EXCEPT !.routes[v] = a.route]
    IN  IF ~a.ok THEN [ok |-> FALSE, env |-> e1, Q |-> Q]
        ELSE IF Len(a.route.current_stop[1].alighting_passengers) = 0
        THEN [ok |-> TRUE, env |-> e1,
              Q |-> EventQueuePut(Q, VehicleWaitingEvent(v, now))]
        ELSE [ok |-> TRUE, env |-> e1, Q |-> Q]

\* VehicleComplete._process
VehicleCompleteProcess(e, Q, event, now) == [ok |-> TRUE, env |-> e, Q |-> Q]

-----------------------------------------------------------------------------
(* Passenger event handlers *)

\* PassengerRelease._process: the trip enters the environment, is split
\* into its legs (one leg, named after the trip) and an Optimize is asked
PassengerReleaseProcess(e, Q, event, now) ==
    LET trip == event.trip
        e1 == [e EXCEPT !.trips = Append(@, trip),
                        !.non_assigned_trips = Append(@, trip),
                        !.tripObj[trip] = TripAssignLegs(@, <<trip>>)]
    IN  [ok |-> TRUE, env |-> e1,
         Q |-> OptimizeAddToQueue(Q, OptimizeTime(now, NoTime), FALSE)]

\* Environment.remove_non_assigned_trip
RemoveNonAssignedTrip(e, trip_id) ==
    LET Other(t) == t # trip_id
    IN  [e EXCEPT !.non_assigned_trips = SelectSeq(@, Other)]

\* Environment.add_assigned_trip
AddAssignedTrip(e, trip) == [e EXCEPT !.assigned_trips = Append(@, trip)]

\* PassengerAssignment._process: the first next leg of the live trip is
\* given the vehicle of the passenger update
PassengerAssignmentProcess(e, Q, event, now) ==
    LET pu == event.data[1]
        trip == pu.request_id
        legs == e.tripObj[trip].next_legs
    IN  IF legs = <<>> THEN [ok |-> FALSE, env |-> e, Q |-> Q]
        ELSE LET r == LegSetAssignedVehicle(e.legObj[legs[1]],
                                            pu.assigned_vehicle_id)
                 e1 == [e EXCEPT !.legObj[legs[1]] = r.leg]
                 e2 == IF Contains(e1.assigned_trips, trip) THEN e1
                       ELSE AddAssignedTrip(RemoveNonAssignedTrip(e1, trip),
                                            trip)
             IN  IF ~r.ok THEN [ok |-> FALSE, env |-> e, Q |-> Q]
                 ELSE [ok |-> TRUE, env |-> e2,
                       Q |-> EventQueuePut(Q, PassengerEvent(
                                 "PassengerReady", trip, now))]

\* PassengerReady._process
PassengerReadyProcess(e, Q, event, now) == [ok |-> TRUE, env |-> e, Q |-> Q]

\* PassengerToBoard._process: the trip starts its next leg and the vehicle
\* of that leg is told that the passenger has boarded
PassengerToBoardProcess(e, Q, event, now) ==
    LET trip == event.trip
        r == TripStartNextLeg(e.tripObj[trip])
    IN  IF ~r.ok THEN [ok |-> FALSE, env |-> e, Q |-> Q]
        ELSE LET leg == r.trip.current_leg[1]
                 e1 == [e EXCEPT !.tripObj[trip] = r.trip]
                 e2 == [e1 EXCEPT !.legObj[leg].boarding_time = now]
             IN  IF e.legObj[leg].assigned_vehicle = None
                 THEN [ok |-> FALSE, env |-> e2, Q |-> Q]
                 ELSE [ok |-> TRUE, env |-> e2,
                       Q |-> EventQueuePut(Q, VehicleBoardedEvent(
                                 e.legObj[leg].assigned_vehicle, trip, now))]

\* PassengerAlighting._process: the vehicle of the current leg is told that
\* the passenger has alighted and the trip finishes its current leg
PassengerAlightingProcess(e, Q, event, now) ==
    LET trip == event.trip
    IN  IF e.tripObj[trip].current_leg = <<>>
        THEN [ok |-> FALSE, env |-> e, Q |-> Q]
        ELSE LET leg == e.tripObj[trip].current_leg[1]
                 e1 == [e EXCEPT !.legObj[leg].alighting_time = now,
                                 !.tripObj[trip] = TripFinishCurrentLeg(@)]
             IN  [ok |-> TRUE, env |-> e1,
                  Q |-> EventQueuePut(Q, VehicleAlightedEvent(
                            e.legObj[leg].assigned_vehicle, leg, now))]

-----------------------------------------------------------------------------
(* Optimization events *)

\* the ids of a list of references
RECURSIVE Ids(_)
Ids(refs) == IF refs = <<>> THEN <<>> ELSE <<Head(refs).id>> \o Ids(Tail(refs))

\* EnvironmentUpdate._process, the loop over modified_requests: h is the
\* heap of the live objects and of the objects of the result's snapshot
RECURSIVE AssignmentLoop(_, _, _, _)
AssignmentLoop(h, Q, trips, now) ==
    IF trips = <<>> THEN [ok |-> TRUE, Q |-> Q]
    ELSE LET trip == ReadTrip(h, Head(trips))
         IN  IF trip.next_legs = <<>> THEN [ok |-> FALSE, Q |-> Q]
             ELSE LET leg == ReadLeg(h, LegRef(Head(trips), trip.next_legs[1]))
                      passenger_update ==
                          [assigned_vehicle_id |-> leg.assigned_vehicle,
                           request_id |-> Head(trips).id,
                           next_legs |-> trip.next_legs]
                  IN  IF leg.assigned_vehicle = None
                      THEN [ok |-> FALSE, Q |-> Q]
                      ELSE AssignmentLoop(
                               h,
                               EventQueuePut(Q, PassengerAssignmentEvent(
                                                    passenger_update, now)),
                               Tail(trips), now)

\* EnvironmentUpdate._process, the loop over modified_vehicles
RECURSIVE NotificationLoop(_, _, _, _, _, _)
NotificationLoop(h, st, Q, vehs, modified_trips_ids, now) ==
    IF vehs = <<>> THEN Q
    ELSE LET route == ReadRoute(h, st.route_by_vehicle_id[Head(vehs)])
             Modified(t) == Contains(modified_trips_ids, t)
             route_update ==
                 [vehicle_id |-> Head(vehs),
                  has_current_stop |-> route.current_stop # <<>>,
                  current_stop_modified_passengers_to_board |->
                      IF route.current_stop = <<>> THEN <<>>
                      ELSE SelectSeq(route.current_stop[1].passengers_to_board,
                                     Modified),
                  next_stops |-> route.next_stops,
                  current_stop_departure_time |->
                      IF route.current_stop = <<>> THEN NoTime
                      ELSE route.current_stop[1].departure_time,
                  modified_assigned_legs |->
                      SelectSeq(route.assigned_legs, Modified)]
         IN  NotificationLoop(
                 h, st,
                 EventQueuePut(Q, VehicleNotificationEvent(route_update, now)),
                 Tail(vehs), modified_trips_ids, now)

\* EnvironmentUpdate._process
EnvironmentUpdateProcess(e, Q, event, now) ==
    LET res == event.data[1]
        h == [live |-> e, snap |-> res.snap]
        a == AssignmentLoop(h, Q, res.modified_requests, now)
        Q2 == NotificationLoop(h, res.state, a.Q, res.modified_vehicles,
                               Ids(res.modified_requests), now)
    IN  IF ~a.ok THEN [ok |-> FALSE, env |-> e, Q |-> a.Q]
        ELSE [ok |-> TRUE, env |-> e,
              Q |-> EventQueuePut(Q2, EnvironmentIdleEvent(now))]

\* EnvironmentIdle._process
EnvironmentIdleProcess(e, Q, event, now) == [ok |-> TRUE, env |-> e, Q |-> Q]

-----------------------------------------------------------------------------
(* The simulation loop: while the queue is not empty, pop the least event, *)
(* set current_time to its time, process it.  One action per event class.  *)

\* the calls a dispatcher makes in a run: one that only assigns legs, in
\* up to MaxRounds rounds, and one that plans a route in one round
AssignmentDispatcher ==
    [rounds |-> MaxRounds, plans |-> MaxPlans, stops |-> 0,
     legs |-> MaxAssign, departures |-> 0]

RoutingDispatcher ==
    [rounds |-> 1, plans |-> 1, stops |-> MaxStops,
     legs |-> MaxAssign, departures |-> 1]

Dispatchers == {AssignmentDispatcher, RoutingDispatcher}

\* the inputs of a run: the vehicles and the trips read before it starts
\* (o: the origin of t2, release: the release time of t1, start_stop and
\* next_stops: the route read with v1), the dispatcher and the freeze
\* interval of the optimization
Config(b, f, o, release, start_stop, next_stops) ==
    [dispatcher |-> b,
     freeze_interval |-> f,
     vehicle |-> [v \in Vehicles |->
                     [start_stop |-> IF v = "v1" THEN start_stop
                                     ELSE NewStop(0, 1, "A"),
                      next_stops |-> IF v = "v1" THEN next_stops ELSE <<>>,
                      release_time |-> 0,
                      end_time |-> MaxTime,
                      capacity |-> 1,
                      reusable |-> (v = "v2")]],
     trip |-> [t \in Trips |->
                  [origin |-> IF t = "t1" THEN "A" ELSE o,
                   destination |-> IF t = "t1" THEN "B"
                                   ELSE IF o = "A" THEN "B" ELSE "A",
                   release_time |-> IF t = "t1" THEN release ELSE 1]]]

\* the runs: taxis that wait at A for the trips; a run whose first trip is
\* released after the first optimization; runs in which v1 serves a line
\* whose stops have a min_departure_time (the start stop is read with the
\* departure time 1 and the min_departure_time 1..MaxMin)
Configs ==
    {Config(b, f, o, 0, NewStop(0, 1, "A"), <<>>) :
        o \in Locations, b \in Dispatchers, f \in FreezeInterval..MaxFreeze}
    \cup {Config(AssignmentDispatcher, FreezeInterval, "A", 1,
                 NewStop(0, 1, "A"), <<>>)}
    \cup {Config(RoutingDispatcher, FreezeInterval, "A", 0,
                 NewStopWithMin(0, 1, "A", m),
                 <<NewStopWithMin(2, 2, "B", 2)>>) : m \in 1..MaxMin}

\* Environment.__init__ (with the trips and legs the reader has created)
NewEnvironment ==
    [vehicles |-> <<>>, trips |-> <<>>, assigned_trips |-> <<>>,
     non_assigned_trips |-> <<>>,
     routes |-> [v \in {} |-> NewRoute(NewStop(0, 0, "A"))],
     tripObj |-> [t \in Trips |-> NewTrip],
     legObj |-> [t \in Trips |-> NewLeg],
     vstatus |-> [v \in Vehicles |-> "RELEASE"]]

\* Simulation.__init__: a VehicleReady event per vehicle, then a
\* PassengerRelease event per trip
InitialQueue(c) ==
    LET Q0 == [queue |-> <<>>, index |-> 0]
        Q1 == EventQueuePut(Q0, NewEvent("VehicleReady",
                  c.vehicle["v1"].release_time, StandardPriority, "v1",
                  None, <<>>))
        Q2 == EventQueuePut(Q1, NewEvent("VehicleReady",
                  c.vehicle["v2"].release_time, StandardPriority, "v2",
                  None, <<>>))
        Q3 == EventQueuePut(Q2, PassengerEvent("PassengerRelease", "t1",
                  c.trip["t1"].release_time))
    IN  EventQueuePut(Q3, PassengerEvent("PassengerRelease", "t2",
                  c.trip["t2"].release_time))

NoEvent == [type |-> "none", time |-> 0, priority |-> 0, index |-> -1,
            ok |-> TRUE, nopt |-> 0, opt_time |-> NoTime, before |-> 0,
            puts |-> 0]

Init ==
    /\ cfg \in Configs
    /\ current_time = 0
    /\ env = NewEnvironment
    /\ state = GetNewState(NewEnvironment, 0)
    /\ snap = GetNewStateObjects(NewEnvironment)
    /\ queue = InitialQueue(cfg).queue
    /\ qindex = InitialQueue(cfg).index
    /\ pc = "loop"
    /\ plans = <<>>
    /\ err = "none"
    /\ last = NoEvent
    /\ used = [rounds |-> 0, plans |-> 0, stops |-> 0, legs |-> 0,
               departures |-> 0, leg |-> None, veh |-> None]

\* the history of the run after the event has been popped at time before
\* and its handler has put the given number of events
Played(event, ok, before, puts) ==
    [type |-> event.type, time |-> event.time, priority |-> event.priority,
     index |-> event.index, ok |-> ok,
     nopt |-> IF event.type # "Optimize" THEN last.nopt
              ELSE IF event.time = last.opt_time THEN last.nopt + 1 ELSE 1,
     opt_time |-> IF event.type = "Optimize" THEN event.time
                  ELSE last.opt_time,
     before |-> before,
     puts |-> puts]

\* Simulation.simulate, one turn of the loop on an event whose handler
\* ended with the result r
Turn(event, r) ==
    /\ current_time' = SetCurrentTime(current_time, event.time).current_time
    /\ env' = r.env
    /\ queue' = r.Q.queue
    /\ qindex' = r.Q.index
    /\ pc' = IF r.ok THEN "loop" ELSE "aborted"
    /\ err' = IF r.ok THEN "none" ELSE event.type
    /\ last' = Played(event, r.ok, current_time, r.Q.index - qindex)
    /\ UNCHANGED <<state, snap, plans, used, cfg>>

\* the event the loop pops next is of the given class and its time is
\* accepted by the setter of current_time
Pops(i, type) ==
    /\ pc = "loop"
    /\ qindex < MaxIndex
    /\ i \in MinPositions(queue)
    /\ queue[i].type = type
    /\ SetCurrentTime(current_time, queue[i].time).ok

\* the queue after the pop, with its index counter
Popped(i) == [queue |-> EventQueuePop(queue, i).queue, index |-> qindex]

\* the pop of an event scheduled before current_time: the setter raises
ProcessPastEvent ==
    \E i \in MinPositions(queue) :
        /\ pc = "loop"
        /\ qindex < MaxIndex
        /\ ~SetCurrentTime(current_time, queue[i].time).ok
        /\ current_time' =
               SetCurrentTime(current_time, queue[i].time).current_time
        /\ queue' = EventQueuePop(queue, i).queue
        /\ pc' = "aborted"
        /\ err' = "current_time"
        /\ last' = Played(queue[i], FALSE, current_time, 0)
        /\ UNCHANGED <<env, state, snap, qindex, plans, used, cfg>>

-----------------------------------------------------------------------------
(* Event.process of each event class *)

ProcessVehicleReady ==
    \E i \in MinPositions(queue) :
        /\ Pops(i, "VehicleReady")
        /\ Turn(queue[i],
                VehicleReadyProcess(NextState(env, queue[i]), Popped(i), queue[i],
                    queue[i].time))

ProcessVehicleBoarding ==
    \E i \in MinPositions(queue) :
        /\ Pops(i, "VehicleBoarding")
        /\ Turn(queue[i],
                VehicleBoardingProcess(NextState(env, queue[i]), Popped(i), queue[i],
                    queue[i].time))

ProcessVehicleArrival ==
    \E i \in MinPositions(queue) :
        /\ Pops(i, "VehicleArrival")
        /\ Turn(queue[i],
                VehicleArrivalProcess(NextState(env, queue[i]), Popped(i), queue[i],
                    queue[i].time))

ProcessVehicleNotification ==
    \E i \in MinPositions(queue) :
        /\ Pops(i, "VehicleNotification")
        /\ Turn(queue[i],
                VehicleNotificationProcess(NextState(env, queue[i]), Popped(i), queue[i],
                    queue[i].time))

ProcessVehicleBoarded ==
    \E i \in MinPositions(queue) :
        /\ Pops(i, "VehicleBoarded")
        /\ Turn(queue[i],
                VehicleBoardedProcess(NextState(env, queue[i]), Popped(i), queue[i],
                    queue[i].time))

ProcessVehicleAlighted ==
    \E i \in MinPositions(queue) :
        /\ Pops(i, "VehicleAlighted")
        /\ Turn(queue[i],
                VehicleAlightedProcess(NextState(env, queue[i]), Popped(i), queue[i],
                    queue[i].time))

ProcessVehicleComplete ==
    \E i \in MinPositions(queue) :
        /\ Pops(i, "VehicleComplete")
        /\ Turn(queue[i],
                VehicleCompleteProcess(NextState(env, queue[i]), Popped(i), queue[i],
                    queue[i].time))

ProcessPassengerRelease ==
    \E i \in MinPositions(queue) :
        /\ Pops(i, "PassengerRelease")
        /\ Turn(queue[i],
                PassengerReleaseProcess(NextState(env, queue[i]), Popped(i), queue[i],
                    queue[i].time))

ProcessPassengerAssignment ==
    \E i \in MinPositions(queue) :
        /\ Pops(i, "PassengerAssignment")
        /\ Turn(queue[i],
                PassengerAssignmentProcess(NextState(env, queue[i]), Popped(i), queue[i],
                    queue[i].time))

ProcessPassengerReady ==
    \E i \in MinPositions(queue) :
        /\ Pops(i, "PassengerReady")
        /\ Turn(queue[i],
                PassengerReadyProcess(NextState(env, queue[i]), Popped(i), queue[i],
                    queue[i].time))

ProcessPassengerToBoard ==
    \E i \in MinPositions(queue) :
        /\ Pops(i, "PassengerToBoard")
        /\ Turn(queue[i],
                PassengerToBoardProcess(NextState(env, queue[i]), Popped(i), queue[i],
                    queue[i].time))

ProcessPassengerAlighting ==
    \E i \in MinPositions(queue) :
        /\ Pops(i, "PassengerAlighting")
        /\ Turn(queue[i],
                PassengerAlightingProcess(NextState(env, queue[i]), Popped(i), queue[i],
                    queue[i].time))

ProcessEnvironmentUpdate ==
    \E i \in MinPositions(queue) :
        /\ Pops(i, "EnvironmentUpdate")
        /\ Turn(queue[i],
                EnvironmentUpdateProcess(NextState(env, queue[i]), Popped(i), queue[i],
                    queue[i].time))

ProcessEnvironmentIdle ==
    \E i \in MinPositions(queue) :
        /\ Pops(i, "EnvironmentIdle")
        /\ Turn(queue[i],
                EnvironmentIdleProcess(NextState(env, queue[i]), Popped(i), queue[i],
                    queue[i].time))

ProcessVehicleWaiting ==
    \E i \in MinPositions(queue) :
        /\ Pops(i, "VehicleWaiting")
        /\ \E tt \in (IF env.routes[queue[i].veh].current_stop = <<>>
                      THEN {queue[i].time}
                      ELSE EventTimes(env.routes[queue[i].veh]
                                          .current_stop[1].departure_time,
                                      queue[i].time)) :
               Turn(queue[i],
                    VehicleWaitingProcess(NextState(env, queue[i]), Popped(i),
                                          queue[i], queue[i].time, tt))

ProcessVehicleDeparture ==
    \E i \in MinPositions(queue) :
        /\ Pops(i, "VehicleDeparture")
        /\ \E tt \in (IF env.routes[queue[i].veh].next_stops = <<>>
                      THEN {queue[i].time}
                      ELSE EventTimes(env.routes[queue[i].veh]
                                          .next_stops[1].arrival_time,
                                      queue[i].time)) :
               Turn(queue[i],
                    VehicleDepartureProcess(NextState(env, queue[i]),
                                            Popped(i), queue[i],
                                            queue[i].time, tt))

-----------------------------------------------------------------------------
(* Optimize._process.  The call of the dispatcher's optimize method is a   *)
(* sequence of steps: the method may create route plans for the selected   *)
(* routes and call their update_current_stop_departure_time,               *)
(* append_next_stop and assign_leg in any order before it returns.         *)

\* the heap while a snapshot exists
Heap == [live |-> env, snap |-> snap]

\* OptimizationResult.__init__ as the EnvironmentUpdate event carries it
OptimizationResult(st, objects, modified_requests, modified_vehicles) ==
    [state |-> st, snap |-> objects,
     modified_requests |-> modified_requests,
     modified_vehicles |-> modified_vehicles]

\* Optimization.need_to_optimize: the policy asks for as many rounds as
\* the dispatcher of the run takes
NeedToOptimize ==
    IF used.rounds < cfg.dispatcher.rounds THEN BOOLEAN ELSE {FALSE}

\* a process that does not unfreeze the routes after dispatch
OptimizeUnfreezeSkipped(st, freeze_interval) == st

\* Optimize._process: state.freeze_routes_for_time_interval(freeze_interval)
\* on the new state, before dispatch
OptimizeFreeze(h, st, freeze_interval) == FreezeRoutes(h, st, freeze_interval)

\* Optimize._process: state.unfreeze_routes_for_time_interval(freeze_interval)
\* after dispatch, before the EnvironmentUpdate event is created
OptimizeUnfreeze(st, freeze_interval) == UnfreezeRoutes(st, freeze_interval)

\* Optimize._process up to the call of optimize: need is the answer of
\* need_to_optimize
ProcessOptimize ==
    \E i \in MinPositions(queue), need \in NeedToOptimize :
        LET event == queue[i]
            objects == GetNewStateObjects(env)
            h == [live |-> env, snap |-> objects]
            st == OptimizeFreeze(h, GetNewState(env, event.time),
                                 cfg.freeze_interval)
            input == PrepareInput(h, st)
            skip == ~DispatchOptimizes(input)
            Q == EventQueuePut(
                     Popped(i),
                     EnvironmentUpdateEvent(
                         OptimizationResult(
                             OptimizeUnfreeze(st, cfg.freeze_interval),
                             objects, <<>>, <<>>),
                         event.time))
        IN  /\ Pops(i, "Optimize")
            /\ current_time' =
                   SetCurrentTime(current_time, event.time).current_time
            /\ last' = Played(event, TRUE, current_time,
                              IF need /\ skip THEN 1 ELSE 0)
            /\ used' = [used EXCEPT !.rounds = IF need THEN @ + 1 ELSE @]
            /\ env' = h.live
            /\ plans' = <<>>
            /\ err' = "none"
            /\ IF ~need
               THEN /\ queue' = Popped(i).queue
                    /\ pc' = "loop"
                    /\ UNCHANGED <<state, snap, qindex>>
               ELSE IF skip
               THEN /\ state' = OptimizeUnfreeze(st, cfg.freeze_interval)
                    /\ snap' = h.snap
                    /\ queue' = Q.queue
                    /\ qindex' = Q.index
                    /\ pc' = "loop"
               ELSE /\ state' = st
                    /\ snap' = h.snap
                    /\ queue' = Popped(i).queue
                    /\ pc' = "optimize"
                    /\ UNCHANGED qindex
            /\ UNCHANGED cfg

\* the time after which the next stop of the plan can be planned
LastTime(plan) ==
    IF plan.next_stops = <<>> THEN state.current_time
    ELSE plan.next_stops[Len(plan.next_stops)].arrival_time

\* optimize: OptimizedRoutePlan(route) for a selected route without a plan
OptimizeNewPlan ==
    \E ref \in PrepareInput(Heap, state).selected_routes :
        /\ pc = "optimize"
        /\ used.plans < cfg.dispatcher.plans
        /\ \A k \in DOMAIN plans : plans[k].route # ref
        /\ plans' = Append(plans, NewOptimizedRoutePlan(ref))
        /\ used' = [used EXCEPT !.plans = @ + 1]
        /\ UNCHANGED <<current_time, env, state, snap, queue, qindex, pc, err,
                       last, cfg>>

\* optimize: update_current_stop_departure_time on the plan created last
OptimizeUpdateDeparture ==
    \E d \in {state.current_time, state.current_time + 2} :
        /\ pc = "optimize"
        /\ plans # <<>>
        /\ d <= MaxTime
        /\ used.departures < cfg.dispatcher.departures
        /\ plans' = [plans EXCEPT ![Len(plans)] =
                        UpdateCurrentStopDepartureTime(@, d)]
        /\ used' = [used EXCEPT !.departures = @ + 1]
        /\ UNCHANGED <<current_time, env, state, snap, queue, qindex, pc, err,
                       last, cfg>>

\* optimize: append_next_stop on the plan created last
OptimizeAppendStop ==
    \E stop_id \in Locations :
        /\ pc = "optimize"
        /\ plans # <<>>
        /\ used.stops < cfg.dispatcher.stops
        /\ LastTime(plans[Len(plans)]) + 1 <= MaxTime
        /\ plans' = [plans EXCEPT ![Len(plans)] =
                        AppendNextStop(@, stop_id, LastTime(@) + 1, NoTime)]
        /\ used' = [used EXCEPT !.stops = @ + 1]
        /\ UNCHANGED <<current_time, env, state, snap, queue, qindex, pc, err,
                       last, cfg>>

\* optimize: assign_leg on the plan created last; a raise of the setter
\* leaves optimize and ends the run
OptimizeAssignLeg ==
    \E k \in DOMAIN PrepareInput(Heap, state).selected_next_legs :
        LET leg == PrepareInput(Heap, state).selected_next_legs[k]
            r == PlanAssignLeg(Heap, plans[Len(plans)], leg)
        IN  /\ pc = "optimize"
            /\ plans # <<>>
            /\ used.legs < cfg.dispatcher.legs
            /\ used' = [used EXCEPT !.legs = @ + 1, !.leg = leg.id,
                                    !.veh = plans[Len(plans)].route.id]
            /\ env' = r.h.live
            /\ snap' = r.h.snap
            /\ plans' = [plans EXCEPT ![Len(plans)] = r.plan]
            /\ pc' = IF r.ok THEN "optimize" ELSE "aborted"
            /\ err' = IF r.ok THEN "none" ELSE "assign_leg"
            /\ last' = [last EXCEPT !.ok = r.ok]
            /\ UNCHANGED <<current_time, state, queue, qindex, cfg>>

\* optimize returns: process_optimized_route_plans, unfreeze, and the
\* EnvironmentUpdate event is put in the queue
OptimizeReturn ==
    LET r == ProcessOptimizedRoutePlans(Heap, plans)
        st == OptimizeUnfreeze(state, cfg.freeze_interval)
        Q == EventQueuePut(
                 [queue |-> queue, index |-> qindex],
                 EnvironmentUpdateEvent(
                     OptimizationResult(st, r.h.snap, r.modified_requests,
                                        r.modified_vehicles),
                     current_time))
    IN  /\ pc = "optimize"
        /\ env' = r.h.live
        /\ snap' = r.h.snap
        /\ plans' = <<>>
        /\ IF r.ok
           THEN /\ state' = st
                /\ queue' = Q.queue
                /\ qindex' = Q.index
                /\ pc' = "loop"
                /\ err' = "none"
           ELSE /\ pc' = "aborted"
                /\ err' = "process_optimized_route_plans"
                /\ UNCHANGED <<state, queue, qindex>>
        /\ last' = [last EXCEPT !.ok = r.ok, !.puts = IF r.ok THEN 1 ELSE 0]
        /\ UNCHANGED <<current_time, used, cfg>>

\* the solver raises at any point of optimize
SolverRunsAnyTime(p) == TRUE

\* TaxiDispatcher.optimize: the solver runs, and checks its solution, before
\* the first route plan is created
SolverRuns(p) == p = <<>>

\* optimize: the constraint check of the solver rejects the solution and
\* online_solver raises ValueError; the raise leaves optimize, dispatch and
\* Optimize._process, and ends the run
OptimizeInfeasible ==
    /\ pc = "optimize"
    /\ SolverRuns(plans)
    /\ pc' = "aborted"
    /\ err' = "infeasible"
    /\ last' = [last EXCEPT !.ok = FALSE]
    /\ UNCHANGED <<current_time, env, state, snap, queue, qindex, plans, used,
                   cfg>>

Next ==
    \/ ProcessPastEvent
    \/ ProcessVehicleReady
    \/ ProcessVehicleWaiting
    \/ ProcessVehicleBoarding
    \/ ProcessVehicleDeparture
    \/ ProcessVehicleArrival
    \/ ProcessVehicleNotification
    \/ ProcessVehicleBoarded
    \/ ProcessVehicleAlighted
    \/ ProcessVehicleComplete
    \/ ProcessPassengerRelease
    \/ ProcessPassengerAssignment
    \/ ProcessPassengerReady
    \/ ProcessPassengerToBoard
    \/ ProcessPassengerAlighting
    \/ ProcessOptimize
    \/ OptimizeNewPlan
    \/ OptimizeUpdateDeparture
    \/ OptimizeAppendStop
    \/ OptimizeAssignLeg
    \/ OptimizeReturn
    \/ OptimizeInfeasible
    \/ ProcessEnvironmentUpdate
    \/ ProcessEnvironmentIdle

Spec == Init /\ [][Next]_vars

-----------------------------------------------------------------------------
(* The event queue on its own: any interleaving of put and pop *)

MaxPuts == 4
MaxQueueTime == 1

QueueInit ==
    /\ cfg = CHOOSE c \in Configs : TRUE
    /\ current_time = 0
    /\ env = NewEnvironment
    /\ state = GetNewState(NewEnvironment, 0)
    /\ snap = GetNewStateObjects(NewEnvironment)
    /\ queue = <<>>
    /\ qindex = 0
    /\ pc = "queue"
    /\ plans = <<>>
    /\ err = "none"
    /\ last = NoEvent
    /\ used = [rounds |-> 0, plans |-> 0, stops |-> 0, legs |-> 0,
               departures |-> 0, leg |-> None, veh |-> None]

\* EventQueue.put of an event of any time and priority
QueuePut ==
    \E time \in 0..MaxQueueTime,
       priority \in {StandardPriority, LowPriority, OptimizePriority} :
        LET Q == EventQueuePut([queue |-> queue, index |-> qindex],
                               NewEvent("Event", time, priority, None, None,
                                        <<>>))
        IN  /\ pc = "queue"
            /\ qindex < MaxPuts
            /\ queue' = Q.queue
            /\ qindex' = Q.index
            /\ UNCHANGED <<current_time, env, state, snap, pc, plans, err,
                           last, used, cfg>>

\* EventQueue.pop on a queue that has an event
QueuePop ==
    \E i \in MinPositions(queue) :
        /\ pc = "queue"
        /\ ~IsEmpty(queue)
        /\ queue' = EventQueuePop(queue, i).queue
        /\ last' = Played(EventQueuePop(queue, i).event, TRUE, current_time, 0)
        /\ UNCHANGED <<current_time, env, state, snap, qindex, pc, plans, err,
                       used, cfg>>

\* EventQueue.pop on an empty queue: PriorityQueue.get() waits for an event
\* without a timeout, and the one thread of the program is the one waiting
QueuePopEmpty ==
    /\ pc = "queue"
    /\ IsEmpty(queue)
    /\ pc' = "blocked"
    /\ UNCHANGED <<current_time, env, state, snap, queue, qindex, plans, err,
                   last, used, cfg>>

QueueNext == QueuePut \/ QueuePop \/ QueuePopEmpty

QueueSpec == QueueInit /\ [][QueueNext]_vars

-----------------------------------------------------------------------------
(* Optimize events on their own: requests for an optimization at a time,  *)
(* with or without a batch size, on a queue that holds Optimize events     *)

MaxRequestTime == 4
MaxBatch == 3
MaxPending == 3

\* the record of the request made last (history)
Requested(time, batch, put) ==
    [type |-> "Optimize", time |-> time, batch |-> batch, put |-> put]

BatchInit ==
    /\ cfg = CHOOSE c \in Configs : TRUE
    /\ current_time = 0
    /\ env = NewEnvironment
    /\ state = GetNewState(NewEnvironment, 0)
    /\ snap = GetNewStateObjects(NewEnvironment)
    /\ queue = <<>>
    /\ qindex = 0
    /\ pc = "batch"
    /\ plans = <<>>
    /\ err = "none"
    /\ last = Requested(NoTime, NoTime, FALSE)
    /\ used = [rounds |-> 0, plans |-> 0, stops |-> 0, legs |-> 0,
               departures |-> 0, leg |-> None, veh |-> None]

\* Optimize(time, queue, batch=batch).add_to_queue()
RequestOptimize ==
    \E time \in 0..MaxRequestTime, batch \in {NoTime} \cup 1..MaxBatch :
        LET Q == OptimizeAddToQueue([queue |-> queue, index |-> qindex],
                                    OptimizeTime(time, batch), FALSE)
        IN  /\ pc = "batch"
            /\ Len(queue) < MaxPending
            /\ queue' = Q.queue
            /\ qindex' = Q.index
            /\ last' = Requested(time, batch, Q.index # qindex)
            /\ UNCHANGED <<current_time, env, state, snap, pc, plans, err,
                           used, cfg>>

BatchNext == RequestOptimize

BatchSpec == BatchInit /\ [][BatchNext]_vars

-----------------------------------------------------------------------------
(* A route on its own: the operations of Route and Stop called in any      *)
(* order on the route of v1, with current stop A and next stop B; a call   *)
(* that raises leaves the route as the raise found it and the caller goes  *)
(* on.  Each trip has its one leg as next leg.                             *)

MaxCalls == 6

\* the record of the last call: its name, whether it returned, the number
\* of calls so far
Called(name, ok) ==
    [last EXCEPT !.type = name, !.ok = ok, !.index = @ + 1]

RouteInit ==
    /\ cfg = CHOOSE c \in Configs : TRUE
    /\ current_time = 0
    /\ env = [NewEnvironment EXCEPT
                 !.routes = [v \in {"v1"} |->
                                [NewRoute(NewStop(0, 1, "A")) EXCEPT
                                    !.next_stops = <<NewStop(2, 2, "B")>>]],
                 !.tripObj = [t \in Trips |-> TripAssignLegs(NewTrip, <<t>>)]]
    /\ state = GetNewState(NewEnvironment, 0)
    /\ snap = GetNewStateObjects(NewEnvironment)
    /\ queue = <<>>
    /\ qindex = 0
    /\ pc = "route"
    /\ plans = <<>>
    /\ err = "none"
    /\ last = [NoEvent EXCEPT !.index = 0]
    /\ used = [rounds |-> 0, plans |-> 0, stops |-> 0, legs |-> 0,
               departures |-> 0, leg |-> None, veh |-> None]

\* the step of a call on the route of v1 with the given result
RouteCall(name, r) ==
    /\ pc = "route"
    /\ last.index < MaxCalls
    /\ env' = [env EXCEPT !.routes["v1"] = r.route]
    /\ last' = Called(name, r.ok)
    /\ UNCHANGED <<current_time, state, snap, queue, qindex, pc, plans, err,
                   used, cfg>>

\* the current leg of the trip (None when it has none)
CurrentLegOf(trip) ==
    IF env.tripObj[trip].current_leg = <<>> THEN None
    ELSE env.tripObj[trip].current_leg[1]

\* Route.assign_leg and the trip given to the stops, as a route plan does:
\* boarding at the current stop, alighting at the next stop
RouteCallAssign ==
    \E t \in Trips :
        /\ ~Contains(env.routes["v1"].assigned_legs, t)
        /\ env.routes["v1"].current_stop # <<>>
        /\ env.routes["v1"].next_stops # <<>>
        /\ RouteCall("assign_leg",
               [ok |-> TRUE,
                route |-> [RouteAssignLeg(env.routes["v1"], t) EXCEPT
                              !.current_stop[1].passengers_to_board =
                                  Append(@, t),
                              !.next_stops[1].passengers_to_alight =
                                  Append(@, t)]])

RouteCallInitiateBoarding ==
    \E t \in Trips :
        /\ pc = "route"
        /\ RouteCall("initiate_boarding",
                     RouteInitiateBoarding(env.routes["v1"], t))

\* Trip.start_next_leg of a trip of the route
RouteCallStartNextLeg ==
    \E t \in Trips :
        /\ pc = "route"
        /\ last.index < MaxCalls
        /\ env' = [env EXCEPT !.tripObj[t] = TripStartNextLeg(@).trip]
        /\ last' = Called("start_next_leg",
                          TripStartNextLeg(env.tripObj[t]).ok)
        /\ UNCHANGED <<current_time, state, snap, queue, qindex, pc, plans,
                       err, used, cfg>>

RouteCallBoard ==
    \E t \in Trips :
        /\ pc = "route"
        /\ RouteCall("board",
                     RouteBoard(env.routes["v1"], t, CurrentLegOf(t)))

RouteCallDepart ==
    /\ pc = "route"
    /\ RouteCall("depart",
                 [ok |-> TRUE, route |-> RouteDepart(env.routes["v1"])])

RouteCallArrive ==
    /\ env.routes["v1"].next_stops # <<>>
    /\ RouteCall("arrive",
                 [ok |-> TRUE, route |-> RouteArrive(env.routes["v1"])])

RouteCallInitiateAlighting ==
    \E t \in Trips :
        /\ pc = "route"
        /\ RouteCall("initiate_alighting",
                     RouteInitiateAlighting(env.routes["v1"], t))

\* Route.alight with the leg of a trip
RouteCallAlight ==
    \E t \in Trips :
        /\ pc = "route"
        /\ RouteCall("alight", RouteAlight(env.routes["v1"], t, t))

RouteNext ==
    \/ RouteCallAssign
    \/ RouteCallInitiateBoarding
    \/ RouteCallStartNextLeg
    \/ RouteCallBoard
    \/ RouteCallDepart
    \/ RouteCallArrive
    \/ RouteCallInitiateAlighting
    \/ RouteCallAlight

RouteSpec == RouteInit /\ [][RouteNext]_vars

-----------------------------------------------------------------------------
(* The legs of a trip on their own: start_next_leg and finish_current_leg  *)
(* called in any order on trips that were given up to MaxLegs legs; a call *)
(* that raises is caught and the caller goes on.                          *)

MaxLegs == 2

Legs == {"l1", "l2"}

\* the lists of distinct legs a trip can be given
LegLists ==
    {<<>>} \cup {<<a>> : a \in Legs}
           \cup {l \in {<<a, b>> : a \in Legs, b \in Legs} : l[1] # l[2]}

TripInit ==
    /\ cfg = CHOOSE c \in Configs : TRUE
    /\ current_time = 0
    /\ \E legs \in [Trips -> {l \in LegLists : Len(l) <= MaxLegs}] :
           env = [NewEnvironment EXCEPT
                     !.tripObj = [t \in Trips |->
                                     TripAssignLegs(NewTrip, legs[t])]]
    /\ state = GetNewState(NewEnvironment, 0)
    /\ snap = GetNewStateObjects(NewEnvironment)
    /\ queue = <<>>
    /\ qindex = 0
    /\ pc = "trip"
    /\ plans = <<>>
    /\ err = "none"
    /\ last = [NoEvent EXCEPT !.index = 0]
    /\ used = [rounds |-> 0, plans |-> 0, stops |-> 0, legs |-> 0,
               departures |-> 0, leg |-> None, veh |-> None]

TripCallStartNextLeg ==
    \E t \in Trips :
        /\ pc = "trip"
        /\ last.index < MaxCalls
        /\ env' = [env EXCEPT !.tripObj[t] = TripStartNextLeg(@).trip]
        /\ last' = Called("start_next_leg",
                          TripStartNextLeg(env.tripObj[t]).ok)
        /\ UNCHANGED <<current_time, state, snap, queue, qindex, pc, plans,
                       err, used, cfg>>

TripCallFinishCurrentLeg ==
    \E t \in Trips :
        /\ pc = "trip"
        /\ last.index < MaxCalls
        /\ env' = [env EXCEPT !.tripObj[t] = TripFinishCurrentLeg(@)]
        /\ last' = Called("finish_current_leg", TRUE)
        /\ UNCHANGED <<current_time, state, snap, queue, qindex, pc, plans,
                       err, used, cfg>>

TripNext == TripCallStartNextLeg \/ TripCallFinishCurrentLeg

TripSpec == TripInit /\ [][TripNext]_vars

-----------------------------------------------------------------------------
(* Properties *)

\* C1: current_time never decreases, and the pop of an event scheduled
\* before current_time raises and leaves current_time unchanged
C1_MonotonicTime ==
    [][/\ current_time' >= current_time
       /\ (last'.time < last'.before =>
               /\ pc' = "aborted"
               /\ err' = "current_time"
               /\ current_time' = current_time)]_vars

\* C1: the time has advanced and an event of an earlier time was rejected
C1_Witness ==
    /\ pc = "aborted"
    /\ err = "current_time"
    /\ last.time < current_time

\* a precedes b by (scheduled time, priority class, insertion index)
KeyLess(a, b) ==
    \/ a.time < b.time
    \/ a.time = b.time /\ a.priority < b.priority
    \/ a.time = b.time /\ a.priority = b.priority /\ a.index < b.index

\* C2: a pop removes the pending event that precedes every other pending
\* event by (time, priority, index); a put stamps an index greater than
\* every index stamped before; so the events of one time and priority leave
\* in the order of their puts and the pop order is determined by the puts
C2_QueueOrdering ==
    [][/\ Len(queue') < Len(queue) =>
              \E i \in DOMAIN queue :
                  /\ queue' = SubSeq(queue, 1, i - 1)
                                  \o SubSeq(queue, i + 1, Len(queue))
                  /\ \A j \in DOMAIN queue \ {i} : KeyLess(queue[i], queue[j])
                  /\ \A j \in DOMAIN queue \ {i} :
                         (queue[j].time = queue[i].time
                          /\ queue[j].priority = queue[i].priority)
                             => queue[j].index > queue[i].index
       /\ Len(queue') > Len(queue) =>
              /\ qindex' > qindex
              /\ \A j \in DOMAIN queue :
                     queue[j].index < queue'[Len(queue')].index]_vars

\* C2: an event was popped while an event of the same time and priority,
\* put after it, is pending, and an event put before it is pending too
C2_Witness ==
    /\ last.type = "Event"
    /\ \E j \in DOMAIN queue : /\ queue[j].time = last.time
                               /\ queue[j].priority = last.priority
                               /\ queue[j].index > last.index
    /\ \E j \in DOMAIN queue : queue[j].index < last.index

\* the values of the entities of the snapshot, read through its registry
SnapshotView ==
    [trips |-> [k \in DOMAIN state.trips |-> ReadTrip(Heap, state.trips[k])],
     legs |-> [k \in DOMAIN state.trips |->
                  ReadLeg(Heap, LegRef(state.trips[k], state.trips[k].id))],
     routes |-> [v \in DOMAIN state.route_by_vehicle_id |->
                    ReadRoute(Heap, state.route_by_vehicle_id[v])]]

\* the event the loop pops next is an Optimize event
OptimizeIsNext ==
    /\ pc = "loop"
    /\ \E i \in MinPositions(queue) : queue[i].type = "Optimize"

\* C3: the steps of the dispatcher on the snapshot change nothing of the
\* live Environment, and the handlers that change the live Environment
\* after the snapshot was taken change nothing of the snapshot
C3_SnapshotIsolation ==
    [][/\ pc = "optimize" => env' = env
       /\ (pc = "loop" /\ ~OptimizeIsNext) => SnapshotView' = SnapshotView]_vars

\* C3: the snapshot's route and leg were changed by a round and the live
\* leg was changed after it, while the live route is as it was
C3_Witness ==
    \E v \in DOMAIN env.routes \cap DOMAIN snap.routes,
       t \in DOMAIN env.legObj \cap DOMAIN snap.legObj :
        /\ last.type = "PassengerAssignment"
        /\ snap.routes[v].assigned_legs = <<t>>
        /\ env.routes[v].assigned_legs = <<>>
        /\ snap.legObj[t].assigned_vehicle = v
        /\ env.legObj[t].assigned_vehicle = v
        /\ env.tripObj[t].status # snap.tripObj[t].status

\* C4: no step of the processing of an Optimize event (snapshot, freeze,
\* prepare_input, optimize, process_optimized_route_plans, unfreeze)
\* changes the live Environment
C4_OptimizeFrame ==
    [][(OptimizeIsNext \/ pc = "optimize") => env' = env]_vars

\* C4: an Optimize event has been processed: its result is in the snapshot
\* and in the pending EnvironmentUpdate, the live route and leg are as before
C4_Witness ==
    \E v \in DOMAIN env.routes \cap DOMAIN snap.routes,
       t \in DOMAIN env.legObj \cap DOMAIN snap.legObj :
        /\ pc = "loop"
        /\ last.type = "Optimize"
        /\ snap.routes[v].assigned_legs # <<>>
        /\ snap.routes[v].next_stops # <<>>
        /\ snap.legObj[t].assigned_vehicle = v
        /\ env.routes[v].assigned_legs = <<>>
        /\ env.routes[v].next_stops = <<>>
        /\ env.legObj[t].assigned_vehicle = None
        /\ \E i \in DOMAIN queue : queue[i].type = "EnvironmentUpdate"

\* load of every live route and of every route of the snapshot is at most
\* the capacity of its vehicle
LoadWithinCapacity ==
    /\ \A v \in DOMAIN env.routes :
           env.routes[v].load <= cfg.vehicle[v].capacity
    /\ \A v \in DOMAIN snap.routes :
           snap.routes[v].load <= cfg.vehicle[v].capacity

\* C5: at every point of a route's evolution load <= vehicle.capacity (an
\* overbooking plan raises before it changes the route, or Route.board
\* rejects the boarding that exceeds the capacity)
C5_CapacityInvariant == LoadWithinCapacity

\* every leg of the three lists of the route is in one list, once
LegExclusive(route) ==
    LET all == route.assigned_legs \o route.onboard_legs
                   \o route.alighted_legs
    IN  \A l \in Range(all) : Count(all, l) = 1

\* C6: after any sequence of assign, board and alight on a route (called
\* by the dispatcher on the snapshot's route, or by VehicleNotification,
\* VehicleBoarded and VehicleAlighted on the live route) every leg known to
\* the route is in exactly one of assigned_legs, onboard_legs and
\* alighted_legs, once
C6_LegExclusivity ==
    /\ \A v \in DOMAIN env.routes : LegExclusive(env.routes[v])
    /\ \A v \in DOMAIN snap.routes : LegExclusive(snap.routes[v])

\* the step is a call of assign_leg by the dispatcher (the leg and the
\* vehicle of the call are used'.leg and used'.veh)
AssignLegStep == pc = "optimize" /\ used'.legs = used.legs + 1

\* C7: a leg that has an assigned vehicle keeps it, in the live Environment
\* and in the snapshot the dispatcher works on; assign_leg with a plan of a
\* different vehicle raises and leaves the leg, the plan's assigned-leg list
\* and everything else of the snapshot unchanged
C7_DifferentVehicleRaises ==
    [][/\ \A l \in DOMAIN env.legObj :
              env.legObj[l].assigned_vehicle # None
                  => env'.legObj[l].assigned_vehicle
                         = env.legObj[l].assigned_vehicle
       /\ pc = "optimize" =>
              \A l \in DOMAIN snap.legObj :
                  snap.legObj[l].assigned_vehicle # None
                      => snap'.legObj[l].assigned_vehicle
                             = snap.legObj[l].assigned_vehicle
       /\ (AssignLegStep
           /\ snap.legObj[used'.leg].assigned_vehicle \notin {None, used'.veh})
              => /\ pc' = "aborted"
                 /\ err' = "assign_leg"
                 /\ snap' = snap
                 /\ plans' = plans
                 /\ env' = env]_vars

\* C7: assign_leg raised on a leg that has the vehicle of another plan
C7_Witness ==
    /\ pc = "aborted"
    /\ err = "assign_leg"
    /\ used.leg # None
    /\ snap.legObj[used.leg].assigned_vehicle \notin {None, used.veh}
    /\ \E k \in DOMAIN plans :
           /\ plans[k].route.id = snap.legObj[used.leg].assigned_vehicle
           /\ \E j \in DOMAIN plans[k].assigned_legs :
                  plans[k].assigned_legs[j].id = used.leg

\* a list holds every one of its elements once
NoDuplicates(s) == \A i, j \in DOMAIN s : s[i] = s[j] => i = j

\* the lists of assigned legs and of passengers of a route
RouteListsNoDuplicates(route) ==
    /\ NoDuplicates(route.assigned_legs)
    /\ \A k \in DOMAIN route.current_stop :
           /\ NoDuplicates(route.current_stop[k].passengers_to_board)
           /\ NoDuplicates(route.current_stop[k].passengers_to_alight)
    /\ \A k \in DOMAIN route.next_stops :
           /\ NoDuplicates(route.next_stops[k].passengers_to_board)
           /\ NoDuplicates(route.next_stops[k].passengers_to_alight)

\* C8: assign_leg of a leg that the plan holds already (same vehicle) is a
\* no-op on the leg and on the plan's assigned-leg list, and after the plans
\* are applied the leg is once in the route's assigned_legs and its trip
\* once in the passenger lists of the stops
C8_SameVehicleNoOp ==
    [][/\ (AssignLegStep
           /\ \E j \in DOMAIN plans[Len(plans)].assigned_legs :
                  plans[Len(plans)].assigned_legs[j].id = used'.leg)
              => (plans' = plans /\ snap' = snap)
       /\ \A v \in DOMAIN snap'.routes :
              RouteListsNoDuplicates(snap'.routes[v])]_vars

\* the number of live routes that hold the leg in assigned_legs
LiveRoutesOf(l) ==
    Cardinality({v \in DOMAIN env.routes :
                     Contains(env.routes[v].assigned_legs, l)})

\* C9: a leg that a cycle has given a vehicle in the live Environment is
\* not given another one: a later cycle that assigns it to another vehicle
\* raises, the live assigned vehicle never changes once set, and the leg is
\* in the assigned_legs of at most one live route
C9_ConflictingCyclesRaise ==
    [][/\ (AssignLegStep
           /\ env.legObj[used'.leg].assigned_vehicle \notin {None, used'.veh})
              => (pc' = "aborted" /\ err' = "assign_leg")
       /\ \A l \in DOMAIN env.legObj :
              /\ env.legObj[l].assigned_vehicle # None
                     => env'.legObj[l].assigned_vehicle
                            = env.legObj[l].assigned_vehicle
              /\ LiveRoutesOf(l)' <= 1
              /\ \A v \in DOMAIN env'.routes :
                     Contains(env'.routes[v].assigned_legs, l)
                         => env'.legObj[l].assigned_vehicle = v]_vars

\* C9: the second cycle raised on a leg that the result of the first cycle
\* has assigned, in the live Environment, to another vehicle
C9_Witness ==
    /\ pc = "aborted"
    /\ err = "assign_leg"
    /\ used.rounds = 2
    /\ used.leg # None
    /\ env.legObj[used.leg].assigned_vehicle \notin {None, used.veh}
    /\ Contains(env.routes[env.legObj[used.leg].assigned_vehicle]
                    .assigned_legs, used.leg)

\* the Optimize events pending for the time
PendingOptimize(q, time) ==
    {i \in DOMAIN q : q[i].type = "Optimize" /\ q[i].time = time}

\* C10 as stated: no more than one Optimize event is processed for a time
C10_OneOptimizeProcessedPerTime == last.nopt <= 1

\* C10: at most one Optimize event is pending for a time: an Optimize event
\* added (not forced) for a time that has one pending is discarded and the
\* pending one stays; the pop of an Optimize event leaves none pending for
\* its time
C10_OnePendingOptimizePerTime ==
    [][/\ \A time \in 0..MaxTime :
              Cardinality(PendingOptimize(queue', time)) <= 1
       /\ \A i \in DOMAIN queue :
              (queue[i].type = "Optimize" /\ i \notin MinPositions(queue))
                  => \E j \in DOMAIN queue' : queue'[j] = queue[i]
       /\ (last'.type = "Optimize" /\ last'.index # last.index)
              => PendingOptimize(queue', last'.time) = {}]_vars

\* C10: VehicleWaiting or PassengerRelease was processed, its add of an
\* Optimize event for the current time was discarded because of the one
\* pending, which was put before the handler ran
C10_Witness ==
    /\ last.type \in {"VehicleWaiting", "PassengerRelease"}
    /\ last.ok
    /\ \E i \in DOMAIN queue : /\ queue[i].type = "Optimize"
                               /\ queue[i].time = last.time
                               /\ queue[i].index < qindex - last.puts
    /\ \A i \in DOMAIN queue : queue[i].type = "Optimize"
                                   => queue[i].index < qindex - last.puts

\* the stop at a position of a route (0: the current stop, i: next_stops[i])
StopAt(route, position) ==
    IF position = 0 THEN route.current_stop[1]
    ELSE route.next_stops[position]

\* the positions of the stops of a route
Positions(route) ==
    {i \in {0} : route.current_stop # <<>>} \cup DOMAIN route.next_stops

RouteStops(route) == route.current_stop \o route.next_stops

\* the position of the first stop at the location (0: none)
BoardingPosition(stops, origin) ==
    LET S == {i \in DOMAIN stops : stops[i].location = origin}
    IN  IF S = {} THEN 0 ELSE CHOOSE i \in S : \A j \in S : i <= j

\* the position of the first stop at the location after position p (0: none)
AlightingPosition(stops, p, destination) ==
    LET S == {i \in DOMAIN stops : i > p /\ stops[i].location = destination}
    IN  IF p = 0 \/ S = {} THEN 0 ELSE CHOOSE i \in S : \A j \in S : i <= j

\* the step is the return of dispatch with the route plans applied
PlansAppliedStep == pc = "optimize" /\ pc' = "loop"

\* C12: after the plans are applied, every leg a plan assigns is in the
\* assigned_legs of the plan's route; its trip is in passengers_to_board of
\* the first stop (current stop, then next_stops) at the leg's origin and of
\* no other stop, and in passengers_to_alight of the first stop after it at
\* the leg's destination and of no other stop
C12_PickupDropoffPairing ==
    [][PlansAppliedStep =>
           \A k \in DOMAIN plans :
               \A j \in DOMAIN plans[k].assigned_legs :
                   LET l == plans[k].assigned_legs[j].id
                       route == snap'.routes[plans[k].route.id]
                       stops == RouteStops(route)
                       b == BoardingPosition(stops, cfg.trip[l].origin)
                       a == AlightingPosition(stops, b,
                                              cfg.trip[l].destination)
                   IN  /\ Contains(route.assigned_legs, l)
                       /\ \A q \in DOMAIN stops :
                              Contains(stops[q].passengers_to_board, l)
                                  <=> q = b
                       /\ \A q \in DOMAIN stops :
                              Contains(stops[q].passengers_to_alight, l)
                                  <=> q = a]_vars

\* C12: a route with current stop A and next stops B, A, and the leg from B
\* to A of t2 assigned by the plan: t2 boards at B and alights at the A that
\* follows, not at the current stop
C12_Witness ==
    \E v \in DOMAIN snap.routes :
        /\ pc = "loop"
        /\ last.type = "Optimize"
        /\ cfg.trip["t2"].origin = "B"
        /\ Contains(snap.routes[v].assigned_legs, "t2")
        /\ snap.routes[v].current_stop # <<>>
        /\ snap.routes[v].current_stop[1].location = "A"
        /\ snap.routes[v].current_stop[1].passengers_to_alight = <<>>
        /\ Len(snap.routes[v].next_stops) = 2
        /\ snap.routes[v].next_stops[1].location = "B"
        /\ snap.routes[v].next_stops[1].passengers_to_board = <<"t2">>
        /\ snap.routes[v].next_stops[2].location = "A"
        /\ snap.routes[v].next_stops[2].passengers_to_alight = <<"t2">>

\* C13: after the plans are applied, the trip of an assigned leg whose route
\* has no stop at the leg's origin, or no later stop at its destination, is
\* in no stop's passengers_to_board and in no stop's passengers_to_alight
C13_NoPairingLeftUnassigned ==
    [][PlansAppliedStep =>
           \A k \in DOMAIN plans :
               \A j \in DOMAIN plans[k].assigned_legs :
                   LET l == plans[k].assigned_legs[j].id
                       stops == RouteStops(snap'.routes[plans[k].route.id])
                       b == BoardingPosition(stops, cfg.trip[l].origin)
                       a == AlightingPosition(stops, b,
                                              cfg.trip[l].destination)
                   IN  (b = 0 \/ a = 0) =>
                           \A q \in DOMAIN stops :
                               /\ ~Contains(stops[q].passengers_to_board, l)
                               /\ ~Contains(stops[q].passengers_to_alight,
                                            l)]_vars

C15_PlanFrame ==
    [][PlansAppliedStep =>
           /\ \A v \in DOMAIN snap.routes :
                  (\A k \in DOMAIN plans : plans[k].route.id # v)
                      => snap'.routes[v] = snap.routes[v]
           /\ \A l \in DOMAIN snap.legObj :
                  (\A k \in DOMAIN plans :
                       \A j \in DOMAIN plans[k].assigned_legs :
                           plans[k].assigned_legs[j].id # l)
                      => snap'.legObj[l] = snap.legObj[l]
           /\ snap'.tripObj = snap.tripObj
           /\ env' = env]_vars

\* C15: one plan has been applied to a snapshot of two routes: the route of
\* the plan has new next stops and an assigned leg, the other route still
\* has none
C15_Witness ==
    \E v, w \in DOMAIN snap.routes :
        /\ pc = "loop"
        /\ last.type = "Optimize"
        /\ last.ok
        /\ used.plans = 1
        /\ v # w
        /\ snap.routes[v].next_stops # <<>>
        /\ snap.routes[v].assigned_legs # <<>>
        /\ snap.routes[w].next_stops = <<>>
        /\ snap.routes[w].assigned_legs = <<>>

\* C16: the result that the return of dispatch puts in the queue lists each
\* trip with a leg assigned by some plan exactly once and no other trip, and
\* each vehicle whose route the plans changed exactly once and no other
\* vehicle
C16_ModifiedExactlyTouched ==
    [][PlansAppliedStep =>
           LET put == CHOOSE i \in DOMAIN queue' : queue'[i].index = qindex
               res == queue'[put].data[1]
           IN  /\ \A t \in Trips :
                      Count(Ids(res.modified_requests), t)
                          = IF \E k \in DOMAIN plans :
                                   \E j \in DOMAIN plans[k].assigned_legs :
                                       plans[k].assigned_legs[j].id = t
                            THEN 1 ELSE 0
               /\ \A v \in DOMAIN snap.routes :
                      Count(res.modified_vehicles, v)
                          = IF snap'.routes[v] # snap.routes[v]
                            THEN 1 ELSE 0]_vars

\* the step is a call of dispatch: an Optimize event is processed and the
\* optimization policy asks for a round
DispatchStep == pc = "loop" /\ used'.rounds = used.rounds + 1

\* C17: dispatch calls optimize exactly when prepare_input gives at least
\* one leg and at least one route; otherwise the round is skipped: optimize
\* is not called, the snapshot of the result is the copy taken from the
\* environment with nothing changed, and the result lists no modified trip
\* and no modified vehicle
C17_DispatchSkipsEmptyInput ==
    [][DispatchStep =>
           LET input == PrepareInput([live |-> env', snap |-> snap'], state')
               nonempty == /\ Len(input.selected_next_legs) > 0
                           /\ input.selected_routes # {}
           IN  /\ pc' = "optimize" <=> nonempty
               /\ ~nonempty =>
                      LET put == CHOOSE i \in DOMAIN queue' :
                                     queue'[i].index = qindex
                          res == queue'[put].data[1]
                      IN  /\ pc' = "loop"
                          /\ queue'[put].type = "EnvironmentUpdate"
                          /\ res.modified_requests = <<>>
                          /\ res.modified_vehicles = <<>>
                          /\ res.snap = GetNewStateObjects(env)
                          /\ snap' = res.snap
                          /\ env' = env]_vars

\* C17: a round was skipped on a snapshot with a route and no next leg: the
\* result in the queue lists nothing
C17_Witness ==
    /\ pc = "loop"
    /\ last.type = "Optimize"
    /\ last.puts = 1
    /\ DOMAIN state.route_by_vehicle_id # {}
    /\ PrepareInput(Heap, state).selected_next_legs = <<>>
    /\ \E i \in DOMAIN queue :
           /\ queue[i].type = "EnvironmentUpdate"
           /\ queue[i].data[1].modified_vehicles = <<>>
           /\ queue[i].data[1].modified_requests = <<>>

\* C18: the snapshot holds no completed entity: no vehicle of its vehicle
\* registry and no trip of its trip, assigned-trip and non-assigned-trip
\* registries has the status COMPLETE, and no route of its route registry
\* belongs to a vehicle with the status COMPLETE
C18_SnapshotExcludesComplete ==
    /\ \A k \in DOMAIN state.vehicles :
           snap.vstatus[state.vehicles[k]] # "COMPLETE"
    /\ \A k \in DOMAIN state.trips :
           ReadTrip(Heap, state.trips[k]).status # "COMPLETE"
    /\ \A k \in DOMAIN state.assigned_trips :
           ReadTrip(Heap, state.assigned_trips[k]).status # "COMPLETE"
    /\ \A k \in DOMAIN state.non_assigned_trips :
           ReadTrip(Heap, state.non_assigned_trips[k]).status # "COMPLETE"
    /\ \A v \in DOMAIN state.route_by_vehicle_id :
           snap.vstatus[v] # "COMPLETE"

\* the stops of the routes of the environment and of the snapshot
AllStops ==
    UNION {Range(r.current_stop) \cup Range(r.next_stops)
               \cup Range(r.previous_stops) :
           r \in Range(env.routes) \cup Range(snap.routes)}

\* C19: every stop with a min_departure_time has a departure time that is
\* not before it, in every state: once the route is built from the stops as
\* they were constructed, after the departure time is set, after a route
\* plan is applied and after the stop times are moved on an arrival
C19_DepartureNotBeforeMin ==
    \A stop \in AllStops :
        stop.min_departure_time # NoTime
            => /\ stop.departure_time # NoTime
               /\ stop.departure_time >= stop.min_departure_time

\* the number of times the trip is in the passenger lists of the stop
Appearances(stop, trip) ==
    Count(stop.passengers_to_board, trip)
        + Count(stop.boarding_passengers, trip)
        + Count(stop.boarded_passengers, trip)
        + Count(stop.passengers_to_alight, trip)
        + Count(stop.alighting_passengers, trip)
        + Count(stop.alighted_passengers, trip)

\* the stops of the routes of the environment
LiveStops ==
    UNION {Range(r.current_stop) \cup Range(r.next_stops)
               \cup Range(r.previous_stops) : r \in Range(env.routes)}

\* C20: at every stop of a route of the environment, a trip is in at most
\* one of the six passenger lists of the stop, and is there once
C20_TripInOneStopList ==
    \A stop \in LiveStops : \A trip \in Trips : Appearances(stop, trip) <= 1

\* the step is a call of a passenger transition on the route that raised
FailedTransitionStep ==
    /\ pc = "route"
    /\ last'.type \in {"initiate_boarding", "board", "initiate_alighting",
                       "alight"}
    /\ ~last'.ok

\* C21: a passenger transition that raises changes nothing: the passenger
\* lists of the stops, the assigned, onboard and alighted legs of the route
\* and its load are as before the call
C21_FailedTransitionChangesNothing ==
    [][FailedTransitionStep => env'.routes = env.routes]_vars

\* C22: the load of a route is the number of its onboard legs, and the
\* number of free places is the capacity minus the load, after any sequence
\* of calls, those that raise included
C22_LoadIsOnboardCount ==
    pc = "route" =>
        \A v \in DOMAIN env.routes :
            /\ env.routes[v].load = Len(env.routes[v].onboard_legs)
            /\ NbFreePlaces(env.routes[v], cfg.vehicle[v].capacity)
                   = cfg.vehicle[v].capacity - Len(env.routes[v].onboard_legs)

\* C23: start_next_leg on a trip with a next leg makes the head of next_legs
\* the current leg and keeps the other next legs in their order; on a trip
\* with no next leg it raises and the trip is as before; finish_current_leg
\* appends the current leg to previous_legs and leaves no current leg; no
\* other trip changes
C23_StartAndFinishLeg ==
    [][pc = "trip" =>
           \E t \in Trips :
               LET trip == env.tripObj[t]
                   after == env'.tripObj[t]
               IN  /\ \A u \in Trips \ {t} : env'.tripObj[u] = env.tripObj[u]
                   /\ last'.type = "start_next_leg" =>
                          IF trip.next_legs # <<>>
                          THEN /\ last'.ok
                               /\ after.current_leg = <<Head(trip.next_legs)>>
                               /\ after.next_legs = Tail(trip.next_legs)
                               /\ after.previous_legs = trip.previous_legs
                          ELSE /\ ~last'.ok
                               /\ after = trip
                   /\ last'.type = "finish_current_leg" =>
                          /\ last'.ok
                          /\ after.current_leg = <<>>
                          /\ after.next_legs = trip.next_legs
                          /\ Len(after.previous_legs)
                                 = Len(trip.previous_legs) + 1
                          /\ SubSeq(after.previous_legs, 1,
                                    Len(trip.previous_legs))
                                 = trip.previous_legs
                          /\ trip.current_leg # <<>> =>
                                 after.previous_legs[Len(after.previous_legs)]
                                     = trip.current_leg[1]]_vars

\* C23: a trip given the legs l1, l2 has finished l1 and started l2, and a
\* start_next_leg has then raised on it
C23_Witness ==
    /\ pc = "trip"
    /\ last.type = "start_next_leg"
    /\ ~last.ok
    /\ env.tripObj["t1"].previous_legs = <<"l1">>
    /\ env.tripObj["t1"].current_leg = <<"l2">>
    /\ env.tripObj["t1"].next_legs = <<>>
    /\ env.tripObj["t2"].next_legs # <<>>

\* the vehicles whose arrival the step processes, at the end of their route
ArrivedAtLastStop(v) ==
    /\ pc = "loop"
    /\ last'.type = "VehicleArrival"
    /\ last'.ok
    /\ v \in DOMAIN env.routes
    /\ env.routes[v].current_stop = <<>>
    /\ env'.routes[v].current_stop # <<>>
    /\ env'.routes[v].next_stops = <<>>

\* the VehicleComplete events of a vehicle in a queue
CompleteEvents(q, v) ==
    {q[i].index : i \in {j \in DOMAIN q : q[j].type = "VehicleComplete"
                                            /\ q[j].veh = v}}

\* the step processes a VehicleComplete event of the vehicle
CompleteStep(v) ==
    /\ pc = "loop"
    /\ last'.type = "VehicleComplete"
    /\ CompleteEvents(queue', v) # CompleteEvents(queue, v)

\* the vehicle stands at the last stop of a route it has driven
AtLastStop(v) ==
    /\ v \in DOMAIN env.routes
    /\ env.routes[v].current_stop # <<>>
    /\ env.routes[v].previous_stops # <<>>
    /\ env.routes[v].next_stops = <<>>

\* the arrival of a non-reusable vehicle at the end of its route puts a
\* VehicleComplete event of the vehicle at the current time
ArrivalCompletes(v) ==
    ArrivedAtLastStop(v) /\ ~cfg.vehicle[v].reusable =>
        \E i \in DOMAIN queue' :
            /\ queue'[i].type = "VehicleComplete"
            /\ queue'[i].veh = v
            /\ queue'[i].time = current_time'
            /\ queue'[i].index \notin CompleteEvents(queue, v)

\* the arrival of a reusable vehicle at the end of its route puts no
\* VehicleComplete event
ArrivalKeeps(v) ==
    ArrivedAtLastStop(v) /\ cfg.vehicle[v].reusable =>
        CompleteEvents(queue', v) = CompleteEvents(queue, v)

\* when the time moves on, a vehicle at the end of its route is COMPLETE if
\* it is not reusable and IDLE (waiting) if it is
SettledAtLastStop(v) ==
    current_time' > current_time /\ AtLastStop(v) =>
        env.vstatus[v] = IF cfg.vehicle[v].reusable THEN "IDLE" ELSE "COMPLETE"

\* C24: a non-reusable vehicle that arrives at its last stop is completed at
\* the time of the arrival: the arrival puts a forced VehicleComplete event
\* at the current time and the vehicle is COMPLETE before the time moves on;
\* the arrival of a reusable vehicle puts no VehicleComplete event, the
\* vehicle returns to waiting, and it is completed at its last stop only by
\* the VehicleComplete event scheduled at its end_time, so not at the time
\* of the arrival unless the end_time is reached
C24_CompletionOnLastStop ==
    [][\A v \in Vehicles :
          /\ ArrivalCompletes(v)
          /\ ArrivalKeeps(v)
          /\ SettledAtLastStop(v)
          /\ CompleteStep(v) /\ cfg.vehicle[v].reusable /\ AtLastStop(v)
                => current_time' >= cfg.vehicle[v].end_time]_vars

\* C24 as stated: the reusable vehicle is never completed at the time of its
\* arrival at the last stop
C24_ReusableNotCompletedThen ==
    [][\A v \in Vehicles :
          /\ ArrivalCompletes(v)
          /\ ArrivalKeeps(v)
          /\ CompleteStep(v) /\ cfg.vehicle[v].reusable /\ AtLastStop(v)
                => current_time' > env.routes[v].current_stop[1].arrival_time]_vars

\* a reusable vehicle completed at the time it arrived at its last stop
C24_Witness ==
    \E v \in Vehicles :
        /\ cfg.vehicle[v].reusable
        /\ AtLastStop(v)
        /\ last.type = "VehicleComplete"
        /\ env.vstatus[v] = "COMPLETE"
        /\ env.routes[v].current_stop[1].arrival_time = current_time

\* C25: Complete is terminal: no step changes the status of a vehicle that
\* is COMPLETE, nor the current stop, the next stops or the assigned,
\* onboard and alighted legs of its route
C25_CompleteIsTerminal ==
    [][\A v \in Vehicles :
          env.vstatus[v] = "COMPLETE" /\ v \in DOMAIN env.routes =>
              /\ env'.vstatus[v] = "COMPLETE"
              /\ env'.routes[v].current_stop = env.routes[v].current_stop
              /\ env'.routes[v].next_stops = env.routes[v].next_stops
              /\ env'.routes[v].assigned_legs = env.routes[v].assigned_legs
              /\ env'.routes[v].onboard_legs = env.routes[v].onboard_legs
              /\ env'.routes[v].alighted_legs = env.routes[v].alighted_legs]_vars

\* C26: pop on an empty queue raises and aborts the run: it returns no event
\* and does not wait for one
C26_PopOnEmptyRaises ==
    [][pc = "queue" /\ IsEmpty(queue) /\ queue' = queue =>
          pc' = "aborted" /\ err' # "none"]_vars

\* the step in which the solver rejects its solution
InfeasibleStep == pc = "optimize" /\ err' = "infeasible"

\* C27: when the constraint check rejects the solution the round ends with
\* the error before a route plan is built: no plan exists and none is
\* processed (the snapshot and its registry are as the freeze left them),
\* no EnvironmentUpdate event is put in the queue or pending in it, the live
\* environment is unchanged and the run is over
C27_InfeasibleChangesNothing ==
    [][InfeasibleStep =>
          /\ plans = <<>> /\ plans' = <<>>
          /\ snap' = snap /\ state' = state
          /\ queue' = queue /\ qindex' = qindex
          /\ \A i \in DOMAIN queue' : queue'[i].type # "EnvironmentUpdate"
          /\ env' = env
          /\ current_time' = current_time
          /\ pc' = "aborted"]_vars

\* the solver rejected the solution of a round that had a route and a leg
\* to work on, after an earlier round was applied
C27_Witness ==
    /\ err = "infeasible"
    /\ pc = "aborted"
    /\ used.rounds > 1
    /\ PrepareInput(Heap, state).selected_routes # {}
    /\ Len(PrepareInput(Heap, state).selected_next_legs) > 0
    /\ \E v \in DOMAIN env.routes : env.routes[v].assigned_legs # <<>>

\* the smallest multiple of b that is not less than t
SmallestMultipleFrom(t, b) ==
    CHOOSE m \in t..(t + b - 1) :
        m % b = 0 /\ \A n \in 0..(m - 1) : n % b = 0 => n < t

\* the times of the pending Optimize events
PendingOptimizeTimes(q) ==
    {q[i].time : i \in {j \in DOMAIN q : q[j].type = "Optimize"}}

\* C28: with a batch size b > 0 an Optimize event requested for time t has
\* for time the smallest multiple of b that is not less than t (t itself
\* when t is a multiple of b); it is discarded when an Optimize event is
\* pending for that rounded time, and put otherwise
C28_BatchRounding ==
    [][pc = "batch" /\ last'.batch # NoTime =>
          LET t == last'.time
              b == last'.batch
              r == SmallestMultipleFrom(t, b)
          IN  /\ b > 0
              /\ (t % b = 0) => r = t
              /\ IF r \in PendingOptimizeTimes(queue)
                 THEN queue' = queue /\ ~last'.put
                 ELSE /\ last'.put
                      /\ Len(queue') = Len(queue) + 1
                      /\ SubSeq(queue', 1, Len(queue)) = queue
                      /\ queue'[Len(queue')].type = "Optimize"
                      /\ queue'[Len(queue')].time = r]_vars

\* a request for a time that is no multiple of the batch size was discarded
\* for the event pending at the rounded time, which is not the time asked
C28_Witness ==
    /\ pc = "batch"
    /\ last.batch > 1
    /\ last.time % last.batch # 0
    /\ ~last.put
    /\ last.time \notin PendingOptimizeTimes(queue)
    /\ SmallestMultipleFrom(last.time, last.batch) \in PendingOptimizeTimes(queue)

\* C29: a plan whose list of next stops is empty (created with next_stops
\* None, no stop appended) leaves the next stops of its route as they were
\* when it is applied, and so does the VehicleNotification that carries the
\* route to the live environment
C29_EmptyPlanKeepsNextStops ==
    [][/\ PlansAppliedStep =>
              \A k \in DOMAIN plans :
                  plans[k].next_stops = <<>> =>
                      snap'.routes[plans[k].route.id].next_stops
                          = snap.routes[plans[k].route.id].next_stops
       /\ \A i \in DOMAIN queue :
              (/\ pc = "loop"
               /\ queue[i].type = "VehicleNotification"
               /\ last'.type = "VehicleNotification"
               /\ last'.index = queue[i].index
               /\ queue[i].data[1].next_stops = <<>>)
                  => env'.routes[queue[i].data[1].vehicle_id].next_stops
                         = env.routes[queue[i].data[1].vehicle_id].next_stops]_vars

\* the step processes the VehicleDeparture event at position i of the queue
DepartureOf(i) ==
    /\ pc = "loop"
    /\ i \in DOMAIN queue
    /\ queue[i].type = "VehicleDeparture"
    /\ last'.type = "VehicleDeparture"
    /\ last'.index = queue[i].index
    /\ last'.ok

\* the step processes the VehicleNotification event at position i
NotificationOf(i) ==
    /\ pc = "loop"
    /\ i \in DOMAIN queue
    /\ queue[i].type = "VehicleNotification"
    /\ last'.type = "VehicleNotification"
    /\ last'.index = queue[i].index

\* C30: a vehicle that departs from a stop does so at a time not earlier
\* than the departure time the stop has when the departure is processed;
\* while a VehicleDeparture event of a vehicle is pending no step changes
\* the departure time of the stop the vehicle is at, and no
\* VehicleNotification of the vehicle is processed
C30_NoEarlyDeparture ==
    [][\A i \in DOMAIN queue :
          LET v == queue[i].veh
          IN  /\ DepartureOf(i) /\ env.routes[v].current_stop # <<>> =>
                     current_time' >= env.routes[v].current_stop[1].departure_time
              /\ (/\ queue[i].type = "VehicleDeparture"
                  /\ v \in DOMAIN env.routes
                  /\ env.routes[v].current_stop # <<>>
                  /\ env'.routes[v].current_stop # <<>>
                  /\ \E j \in DOMAIN queue' : queue'[j] = queue[i])
                     => env'.routes[v].current_stop[1].departure_time
                            = env.routes[v].current_stop[1].departure_time
              /\ NotificationOf(i) =>
                     \A j \in DOMAIN queue :
                         ~(/\ queue[j].type = "VehicleDeparture"
                           /\ queue[j].veh = queue[i].data[1].vehicle_id)]_vars

\* a vehicle has left its first stop at the departure time an optimization
\* gave the stop, later than the one the stop had at first
C30_Witness ==
    \E v \in DOMAIN env.routes :
        /\ last.type = "VehicleDeparture"
        /\ last.ok
        /\ env.routes[v].current_stop = <<>>
        /\ Len(env.routes[v].previous_stops) = 1
        /\ env.routes[v].previous_stops[1].departure_time = current_time
        /\ env.routes[v].previous_stops[1].departure_time
               > cfg.vehicle[v].start_stop.departure_time

\* the step processes with success the event of the given class at
\* position i of the queue
Processes(i, type) ==
    /\ pc = "loop"
    /\ i \in DOMAIN queue
    /\ queue[i].type = type
    /\ last'.type = type
    /\ last'.index = queue[i].index
    /\ last'.ok

\* the positions of the events the step puts in the queue
NewEvents == {j \in DOMAIN queue' : queue'[j].index >= qindex}

\* the step puts a VehicleWaiting event of the vehicle
PutsWaiting(v) ==
    \E j \in NewEvents :
        queue'[j].type = "VehicleWaiting" /\ queue'[j].veh = v

\* an event is pending that leads the vehicle out of alighting
PendingAfterArrival(v) ==
    \E j \in DOMAIN queue :
        \/ /\ queue[j].type \in {"VehicleWaiting", "VehicleAlighted"}
           /\ queue[j].veh = v
        \/ /\ queue[j].type = "PassengerAlighting"
           /\ Contains(env.routes[v].current_stop[1].alighting_passengers,
                       queue[j].trip)

\* the vehicle has arrived and has not gone back to waiting
Alighting(v) ==
    /\ pc = "loop"
    /\ v \in DOMAIN env.routes
    /\ env.vstatus[v] = "ALIGHTING"
    /\ env.routes[v].current_stop # <<>>

\* C31: a processed VehicleArrival either initiates the alighting of a
\* passenger of the arrived stop or puts a VehicleWaiting event at once; the
\* VehicleAlighted event that empties the alighting list, and no other,
\* puts the VehicleWaiting event; a vehicle that has arrived and is not
\* back to waiting always has an event pending that leads it there (its
\* VehicleWaiting, a VehicleAlighted, or the PassengerAlighting of a
\* passenger who is alighting)
C31_ArrivalLeadsToWaiting ==
    /\ [][\A i \in DOMAIN queue :
             LET v == queue[i].veh
             IN  /\ Processes(i, "VehicleArrival") =>
                        IF env'.routes[v].current_stop[1].alighting_passengers
                               = <<>>
                        THEN PutsWaiting(v)
                        ELSE /\ ~PutsWaiting(v)
                             /\ \E j \in NewEvents :
                                    queue'[j].type = "PassengerAlighting"
                 /\ Processes(i, "VehicleAlighted") =>
                        (PutsWaiting(v) <=>
                            env'.routes[v].current_stop[1].alighting_passengers
                                = <<>>)]_vars
    /\ [](\A v \in Vehicles : Alighting(v) => PendingAfterArrival(v))

\* two passengers alight at the arrived stop: the first has alighted, the
\* second has not, and no VehicleWaiting event of the vehicle is pending
C31_Witness ==
    \E v \in Vehicles :
        /\ Alighting(v)
        /\ last.type = "VehicleAlighted"
        /\ Len(env.routes[v].current_stop[1].alighted_passengers) = 1
        /\ Len(env.routes[v].current_stop[1].alighting_passengers) = 1
        /\ \A j \in DOMAIN queue :
               ~(queue[j].type = "VehicleWaiting" /\ queue[j].veh = v)

-----------------------------------------------------------------------------
(* Boarding and alighting phases *)

\* the VehicleWaiting events of vehicle v the step puts
NewWaiting(v) ==
    {j \in NewEvents : queue'[j].type = "VehicleWaiting" /\ queue'[j].veh = v}

\* passengers are boarding or alighting at the current stop of v
InPhase(e, v) ==
    /\ v \in DOMAIN e.routes
    /\ e.routes[v].current_stop # <<>>
    /\ \/ e.routes[v].current_stop[1].boarding_passengers # <<>>
       \/ e.routes[v].current_stop[1].alighting_passengers # <<>>

-----------------------------------------------------------------------------
(* What a VehicleWaiting event schedules *)

\* the events the step puts, Optimize events aside
NewVehicleEvents ==
    {j \in NewEvents : queue'[j].type # "Optimize"}

\* the step puts one event, of the given type, vehicle and priority
PutsOnly(type, v, priority) ==
    /\ Cardinality(NewVehicleEvents) = 1
    /\ \A j \in NewVehicleEvents :
           /\ queue'[j].type = type /\ queue'[j].veh = v
           /\ queue'[j].priority = priority

\* C33: a processed VehicleWaiting event leaves an Optimize event pending
\* at the current time and schedules exactly one of: VehicleBoarding now
\* when the current stop has passengers to board; otherwise, when next
\* stops exist, VehicleDeparture if the departure time of the current stop
\* is not after the current time and else VehicleWaiting at that departure
\* time; otherwise VehicleComplete at max(end_time, current time), unless a
\* VehicleComplete of the vehicle is already pending
C33_WaitingSchedules ==
    [][\A i \in DOMAIN queue :
          Processes(i, "VehicleWaiting") =>
              LET v == queue[i].veh
                  now == queue[i].time
                  route == env.routes[v]
                  stop == route.current_stop[1]
              IN  /\ \E j \in DOMAIN queue' :
                         queue'[j].type = "Optimize" /\ queue'[j].time = now
                  /\ env'.routes[v] = route
                  /\ IF stop.passengers_to_board # <<>>
                     THEN /\ PutsOnly("VehicleBoarding", v, StandardPriority)
                          /\ \A j \in NewVehicleEvents : queue'[j].time = now
                     ELSE IF route.next_stops # <<>>
                     THEN IF stop.departure_time <= now
                          THEN PutsOnly("VehicleDeparture", v,
                                        StandardPriority)
                          ELSE /\ PutsOnly("VehicleWaiting", v,
                                           StandardPriority)
                               /\ \A j \in NewVehicleEvents :
                                      queue'[j].time = stop.departure_time
                     ELSE IF \E k \in DOMAIN queue :
                                 /\ queue[k].type = "VehicleComplete"
                                 /\ queue[k].veh = v
                          THEN NewVehicleEvents = {}
                          ELSE /\ PutsOnly("VehicleComplete", v, LowPriority)
                               /\ \A j \in NewVehicleEvents :
                                      /\ queue'[j].time >= now
                                      /\ queue'[j].time
                                             >= cfg.vehicle[v].end_time
                                      /\ queue'[j].time
                                             \in {now, cfg.vehicle[v].end_time}
      ]_vars

\* a VehicleWaiting event of a vehicle without next stops has just put the
\* VehicleComplete event at the end_time, later than the current time, and
\* an Optimize event at the current time is pending
C33_Witness ==
    /\ pc = "loop"
    /\ last.type = "VehicleWaiting" /\ last.ok
    /\ \E j \in DOMAIN queue :
           /\ queue[j].type = "VehicleComplete"
           /\ queue[j].index > last.index
           /\ queue[j].time = cfg.vehicle[queue[j].veh].end_time
           /\ queue[j].time > last.time
           /\ env.routes[queue[j].veh].next_stops = <<>>
    /\ \E j \in DOMAIN queue :
           queue[j].type = "Optimize" /\ queue[j].time = last.time

-----------------------------------------------------------------------------
(* Arrivals on their own: a vehicle on its way to the first of the stops   *)
(* of a line arrives there at any time, early or late.  The stops are read *)
(* with any planned times and with or without a min_departure_time; the    *)
(* last stop can have no departure time (math.inf).                        *)

MaxPlanned == 2

\* the stops of a line
LineStops ==
    {NewStopWithMin(a, d, "B", m) :
        a \in 0..MaxPlanned, d \in 0..MaxPlanned, m \in {NoTime, MaxMin}}

\* the last stops of a line
LastStops ==
    LineStops \cup {NewStop(a, Inf, "B") : a \in 0..MaxPlanned}

\* the lines of up to MaxStops stops
Lines ==
    UNION {{s \in [1..n -> LastStops] :
               \A i \in 1..(n - 1) : s[i] \in LineStops} : n \in 1..MaxStops}

ArrivalInit ==
    /\ cfg = CHOOSE c \in Configs : TRUE
    /\ current_time = 0
    /\ \E line \in Lines :
           env = [NewEnvironment EXCEPT
                     !.routes = [v \in {"v1"} |->
                                    [NewRoute(NewStop(0, 0, "A")) EXCEPT
                                        !.current_stop = <<>>,
                                        !.previous_stops =
                                            <<NewStop(0, 0, "A")>>,
                                        !.next_stops = line]],
                     !.vstatus["v1"] = "ENROUTE"]
    /\ state = GetNewState(NewEnvironment, 0)
    /\ snap = GetNewStateObjects(NewEnvironment)
    /\ queue = <<>>
    /\ qindex = 0
    /\ pc = "arrival"
    /\ plans = <<>>
    /\ err = "none"
    /\ last = [NoEvent EXCEPT !.index = 0]
    /\ used = [rounds |-> 0, plans |-> 0, stops |-> 0, legs |-> 0,
               departures |-> 0, leg |-> None, veh |-> None]

\* a VehicleArrival event of v1 is processed at time t (last.before keeps
\* the planned arrival time)
Arrive ==
    \E t \in 0..MaxTime :
        LET event == VehicleArrivalEvent("v1", t)
            r == VehicleArrivalProcess(NextState(env, event),
                                       [queue |-> queue, index |-> qindex],
                                       event, t)
        IN  /\ pc = "arrival"
            /\ env.routes["v1"].current_stop = <<>>
            /\ env.routes["v1"].next_stops # <<>>
            /\ current_time' = t
            /\ env' = r.env
            /\ queue' = r.Q.queue
            /\ qindex' = r.Q.index
            /\ last' = [last EXCEPT
                           !.type = "VehicleArrival", !.time = t,
                           !.ok = r.ok, !.index = @ + 1,
                           !.before =
                               env.routes["v1"].next_stops[1].arrival_time]
            /\ UNCHANGED <<state, snap, pc, plans, err, used, cfg>>

ArrivalNext == Arrive

ArrivalSpec == ArrivalInit /\ [][ArrivalNext]_vars

\* the stops ahead of v1 and the stop it is at
StopsFromHere(e) ==
    e.routes["v1"].current_stop \o e.routes["v1"].next_stops

\* C34: when a vehicle arrives at time t, the arrival time of the stop it
\* arrives at becomes t, and for every stop of the route from there on: the
\* arrival time is not after the departure time if that held before, the
\* departure time is not before the min_departure_time when one is set, and
\* the travel time from the departure of a stop to the arrival at the
\* following stop is the same as before
C34_ArrivalMovesStopTimes ==
    [][pc = "arrival" =>
          LET t == current_time'
              before == env.routes["v1"].next_stops
              after == StopsFromHere(env')
          IN  /\ last'.ok
              /\ Len(after) = Len(before)
              /\ after[1].arrival_time = t
              /\ \A i \in DOMAIN before :
                     /\ before[i].arrival_time <= before[i].departure_time
                            => after[i].arrival_time
                                   <= after[i].departure_time
                     /\ after[i].min_departure_time # NoTime
                            => after[i].departure_time
                                   >= after[i].min_departure_time
                     /\ i < Len(before) =>
                            after[i + 1].arrival_time
                                    - after[i].departure_time
                                = before[i + 1].arrival_time
                                    - before[i].departure_time
      ]_vars

\* v1 has arrived late at a stop whose departure time was moved, and the
\* stop after it is held by its min_departure_time
C34_Witness ==
    /\ pc = "arrival"
    /\ last.type = "VehicleArrival" /\ last.ok
    /\ last.before < current_time
    /\ Len(StopsFromHere(env)) = 2
    /\ StopsFromHere(env)[1].arrival_time = current_time
    /\ StopsFromHere(env)[1].departure_time > MaxPlanned
    /\ StopsFromHere(env)[2].min_departure_time # NoTime
    /\ StopsFromHere(env)[2].departure_time > MaxPlanned

-----------------------------------------------------------------------------
(* An optimization round and its updates *)

\* the pending events that bring the result of an optimization round to the
\* environment
PendingUpdates(q) ==
    {j \in DOMAIN q : q[j].type \in {"EnvironmentUpdate",
                                     "PassengerAssignment",
                                     "VehicleNotification"}}

-----------------------------------------------------------------------------
(* A route update for an idle vehicle *)

\* a VehicleWaiting, VehicleBoarding or VehicleDeparture event of v is pending
LeadsOn(q, v) ==
    \E j \in DOMAIN q :
        /\ q[j].veh = v
        /\ q[j].type \in {"VehicleWaiting", "VehicleBoarding",
                          "VehicleDeparture"}

\* the step processes a VehicleNotification that gives next stops to the idle
\* vehicle v, which had none
IdleGetsNextStops(v) ==
    /\ \E i \in DOMAIN queue :
           Processes(i, "VehicleNotification") /\ queue[i].veh = v
    /\ env.vstatus[v] = "IDLE"
    /\ env.routes[v].current_stop # <<>>
    /\ env.routes[v].next_stops = <<>>
    /\ env'.routes[v].next_stops # <<>>

\* C36 as stated: a VehicleNotification that gives next stops to an idle
\* vehicle without next stops leaves an event pending that leads the vehicle
\* to its departure, whether or not the departure time of the current stop
\* changes; and no run ends with an idle or completed vehicle that still has
\* next stops
C36_UpdateWakesIdleVehicle ==
    /\ [][\A v \in Vehicles : IdleGetsNextStops(v) => LeadsOn(queue', v)]_vars
    /\ [](\A v \in DOMAIN env.routes :
              (pc = "loop" /\ queue = <<>> /\ env.routes[v].next_stops # <<>>)
                  => env.vstatus[v] \notin {"IDLE", "COMPLETE"})

-----------------------------------------------------------------------------
(* Route updates on their own: two VehicleNotification events with the     *)
(* same route update are pending for v1 and are processed one after the    *)
(* other.  Trip t1 is in the environment, t2 is not.                       *)

\* the lists of trips of a route update
UpdateTrips == {<<>>, <<"t1">>, <<"t2">>, <<"t1", "t1">>}

\* the current stop of the route before the update (none: the vehicle is
\* on its way)
NotifiedStops ==
    {<<>>}
    \cup {<<[NewStopWithMin(0, 1, "A", m) EXCEPT !.passengers_to_board = b]>> :
             m \in {NoTime, MaxMin}, b \in {<<>>, <<"t1">>}}

\* the next stops of the route and of the route update
NotifiedNextStops ==
    {<<>>, <<[NewStop(2, 2, "B") EXCEPT !.passengers_to_alight = <<"t1">>]>>}

\* the route updates
RouteUpdates ==
    [vehicle_id : {"v1"},
     has_current_stop : BOOLEAN,
     current_stop_modified_passengers_to_board : UpdateTrips,
     next_stops : NotifiedNextStops,
     current_stop_departure_time : {NoTime} \cup 0..MaxPlanned,
     modified_assigned_legs : UpdateTrips \ {<<"t1", "t1">>}]

NotifyInit ==
    /\ cfg = CHOOSE c \in Configs : TRUE
    /\ current_time = 0
    /\ \E stop \in NotifiedStops, next \in NotifiedNextStops,
          legs \in {<<>>, <<"t1">>} :
           env = [NewEnvironment EXCEPT
                     !.vehicles = <<"v1">>,
                     !.trips = <<"t1">>,
                     !.routes = [v \in {"v1"} |->
                                    [NewRoute(NewStop(0, 1, "A")) EXCEPT
                                        !.current_stop = stop,
                                        !.next_stops = next,
                                        !.assigned_legs = legs]],
                     !.vstatus["v1"] = IF stop = <<>> THEN "ENROUTE"
                                       ELSE "IDLE"]
    /\ state = GetNewState(NewEnvironment, 0)
    /\ snap = GetNewStateObjects(NewEnvironment)
    /\ \E ru \in RouteUpdates :
           LET Q == EventQueuePut(
                        EventQueuePut([queue |-> <<>>, index |-> 0],
                                      VehicleNotificationEvent(ru, 0)),
                        VehicleNotificationEvent(ru, 0))
           IN  queue = Q.queue /\ qindex = Q.index
    /\ pc = "loop"
    /\ plans = <<>>
    /\ err = "none"
    /\ last = NoEvent
    /\ used = [rounds |-> 0, plans |-> 0, stops |-> 0, legs |-> 0,
               departures |-> 0, leg |-> None, veh |-> None]

NotifyNext == ProcessVehicleNotification

NotifySpec == NotifyInit /\ [][NotifyNext]_vars

\* the sequence holds no element twice
NoDuplicate(s) == \A i, j \in DOMAIN s : s[i] = s[j] => i = j

\* the pending VehicleWaiting events
PendingWaiting(q) == {q[j] : j \in {k \in DOMAIN q : q[k].type = "VehicleWaiting"}}

\* C37: the second processing of a route update leaves the live route as
\* the first one left it: passengers_to_board of the current stop and
\* assigned_legs hold no trip twice, next_stops is the same, and the second
\* processing enqueues no VehicleWaiting event
C37_NotificationTwice ==
    /\ [][(pc = "loop" /\ last.type = "VehicleNotification" /\ last.ok)
             => /\ last'.ok
                /\ env'.routes = env.routes
                /\ PendingWaiting(queue') = PendingWaiting(queue)
                /\ qindex' = qindex]_vars
    /\ [](last.type = "VehicleNotification" /\ last.ok
             => /\ NoDuplicate(env.routes["v1"].assigned_legs)
                /\ env.routes["v1"].current_stop # <<>>
                       => NoDuplicate(env.routes["v1"].current_stop[1]
                                          .passengers_to_board))

\* the route update was processed twice: it gave the next stop, the trip to
\* board, the assigned leg and a new departure time, and one VehicleWaiting
\* event is pending
C37_Witness ==
    /\ pc = "loop"
    /\ last.type = "VehicleNotification" /\ last.ok
    /\ queue # <<>>
    /\ \A j \in DOMAIN queue : queue[j].type = "VehicleWaiting"
    /\ Len(queue) = 1
    /\ env.routes["v1"].next_stops # <<>>
    /\ env.routes["v1"].assigned_legs = <<"t1">>
    /\ env.routes["v1"].current_stop # <<>>
    /\ env.routes["v1"].current_stop[1].passengers_to_board = <<"t1">>
    /\ env.routes["v1"].current_stop[1].departure_time = MaxPlanned

-----------------------------------------------------------------------------
(* The rounds of a TaxiDispatcher on their own: a driving loop calls       *)
(* optimize round after round; a round whose solution is rejected raises   *)
(* ValueError, which the loop catches before it goes on to the next round. *)
(* used.runtime is the Timer of the dispatcher, used.now the clock that    *)
(* datetime.now() reads, last.index the number of rounds so far.           *)

\* Timer.__init__
NewTimer ==
    [elapsed_since_start |-> 0, total_elapsed |-> 0, start_time |-> NoTime,
     is_started |-> FALSE]

\* Timer.start
TimerStart(timer, now) ==
    IF timer.is_started THEN [ok |-> FALSE, timer |-> timer]
    ELSE [ok |-> TRUE,
          timer |-> [timer EXCEPT !.start_time = now, !.is_started = TRUE]]

\* Timer.stop
TimerStop(timer, now) ==
    IF ~timer.is_started THEN [ok |-> FALSE, timer |-> timer]
    ELSE [ok |-> TRUE,
          timer |-> [timer EXCEPT
                        !.elapsed_since_start = now - timer.start_time,
                        !.total_elapsed = @ + (now - timer.start_time),
                        !.is_started = FALSE]]

TimerInit ==
    /\ cfg = CHOOSE c \in Configs : TRUE
    /\ current_time = 0
    /\ env = NewEnvironment
    /\ state = GetNewState(NewEnvironment, 0)
    /\ snap = GetNewStateObjects(NewEnvironment)
    /\ queue = <<>>
    /\ qindex = 0
    /\ pc = "round"
    /\ plans = <<>>
    /\ err = "none"
    /\ last = [NoEvent EXCEPT !.index = 0]
    /\ used = [runtime |-> NewTimer, now |-> 0]

\* time passes on the clock
ClockTick ==
    /\ pc \in {"round", "solving"}
    /\ used.now < MaxTime
    /\ used' = [used EXCEPT !.now = @ + 1]
    /\ UNCHANGED <<current_time, env, state, snap, queue, qindex, pc, plans,
                   err, last, cfg>>

\* TaxiDispatcher.optimize, its first statement: self.runtime.start(); the
\* RuntimeError of the Timer is not the error the loop catches
OptimizeStart ==
    LET r == TimerStart(used.runtime, used.now)
    IN  /\ pc = "round"
        /\ last.index < MaxCalls
        /\ used' = [used EXCEPT !.runtime = r.timer]
        /\ pc' = IF r.ok THEN "solving" ELSE "aborted"
        /\ err' = IF r.ok THEN "none" ELSE "Timer is already running."
        /\ last' = Called("optimize", r.ok)
        /\ UNCHANGED <<current_time, env, state, snap, queue, qindex, plans,
                       cfg>>

\* TaxiDispatcher.optimize: the solver accepts its solution, the route
\* plans are created, self.runtime.stop() and the return
OptimizeStop ==
    LET r == TimerStop(used.runtime, used.now)
    IN  /\ pc = "solving"
        /\ used' = [used EXCEPT !.runtime = r.timer]
        /\ pc' = IF r.ok THEN "round" ELSE "aborted"
        /\ err' = IF r.ok THEN "none" ELSE "Timer is not running."
        /\ UNCHANGED <<current_time, env, state, snap, queue, qindex, plans,
                       last, cfg>>

\* TaxiDispatcher.optimize: online_solver raises ValueError("The solution
\* is not feasible"); the raise leaves optimize and the loop catches it
OptimizeRaises ==
    /\ pc = "solving"
    /\ pc' = "round"
    /\ err' = "infeasible"
    /\ last' = [last EXCEPT !.ok = FALSE]
    /\ UNCHANGED <<current_time, env, state, snap, queue, qindex, plans,
                   used, cfg>>

TimerNext == ClockTick \/ OptimizeStart \/ OptimizeStop \/ OptimizeRaises

TimerSpec == TimerInit /\ [][TimerNext]_vars

\* C38 as stated: between two rounds the runtime Timer of the dispatcher is
\* not running, also after a round that ended with the infeasible-solution
\* error, and the optimize call of a round never ends with the error of
\* Timer.start
C38_TimerStoppedBetweenRounds ==
    /\ pc = "round" => ~used.runtime.is_started
    /\ err # "Timer is already running."

====
